---- MODULE Spec2Model ----
(***************************************************************************)
(* Travel-agent chat frontend: the chat store, the sessions store, the     *)
(* preferences store and the streaming client useChat.sendMessage.         *)
(*                                                                         *)
(* Text is modelled as sequences of one-character strings.  The stream     *)
(* body is a sequence of characters that the reader delivers in chunks of  *)
(* arbitrary size.  JSON payloads are written in a compact stand-in        *)
(* syntax, "{" kind argument* "}" :                                        *)
(*    {s}    {"type":"start"}                                              *)
(*    {aXY}  {"type":"action","description":"XY"}    {a}: no description   *)
(*    {mK}   {"type":"memory","updates":{K}}         {m}: no updates       *)
(*    {r}    {"type":"response_start"}                                     *)
(*    {tX}   {"type":"token","content":"X"}                                *)
(*    {c}    {"type":"complete"}                                           *)
(*    {eX}   {"type":"error","message":"X"}          {e}: no message       *)
(*    {z}    an object whose type is none of the above                     *)
(*    0      a JSON value that is not an object                            *)
(* Any other payload (for instance a payload cut before its closing brace) *)
(* makes JSON.parse throw.                                                 *)
(***************************************************************************)
EXTENDS Integers, Sequences, FiniteSets, TLC

(***************************************************************************)
(* Bounds of the model.                                                    *)
(***************************************************************************)
\* sendMessage calls that reach the network, over a behaviour
MaxCalls == 2
\* session ids drawn from uuidv4() over a behaviour
MaxUuids == 4
\* loadConversationHistory calls awaiting the backend at one time
MaxLoads == 2
\* deleteSession calls awaiting the remote DELETE at one time
MaxDeletes == 2
\* clicks on the buttons of the sidebar and the header (new chat, delete,
\* refresh, clear all) over a behaviour
MaxClicks == 2
\* clicks on a session of the sidebar over a behaviour
MaxSelects == 1
\* EventSource objects made by useSSE.connect over a behaviour
MaxSources == 3
\* reconnect timers of useSSE pending at one time
MaxTimers == 2
\* the largest messageCount updateSessionFromMessage is let to reach
MaxMessageCount == 4

(***************************************************************************)
(* Characters and strings.                                                 *)
(***************************************************************************)
NL == "\n"
WhiteSpace == {" ", "\t", "\r"}

\* 'data: ' (main.ts:112) and its length, the argument of line.slice(6)
DataPrefix == <<"d", "a", "t", "a", ":", " ">>
DataPrefixLen == 6

RECURSIVE IndexOfFrom(_, _, _)
\* position of the first ch in s at or after i, 0 when there is none
IndexOfFrom(s, ch, i) ==
    IF i > Len(s) THEN 0
    ELSE IF s[i] = ch THEN i
    ELSE IndexOfFrom(s, ch, i + 1)

RECURSIVE Split(_)
\* String.prototype.split('\n'): always at least one piece
Split(s) ==
    LET i == IndexOfFrom(s, NL, 1) IN
    IF i = 0 THEN <<s>>
    ELSE <<SubSeq(s, 1, i - 1)>> \o Split(SubSeq(s, i + 1, Len(s)))

\* String.prototype.startsWith
StartsWith(s, p) == Len(s) >= Len(p) /\ SubSeq(s, 1, Len(p)) = p

\* String.prototype.slice(n)
Slice(s, n) == SubSeq(s, n + 1, Len(s))

RECURSIVE TrimLeft(_)
TrimLeft(s) ==
    IF s # <<>> /\ Head(s) \in WhiteSpace THEN TrimLeft(Tail(s)) ELSE s

RECURSIVE TrimRight(_)
TrimRight(s) ==
    IF s # <<>> /\ s[Len(s)] \in WhiteSpace
    THEN TrimRight(SubSeq(s, 1, Len(s) - 1)) ELSE s

\* String.prototype.trim
Trim(s) == TrimLeft(TrimRight(s))

\* String.prototype.substring(0, n)
Substring(s, n) == SubSeq(s, 1, IF Len(s) < n THEN Len(s) ELSE n)

\* absent values: null (a string|null field) and undefined (a missing property)
Null == <<"<null>">>
Undefined == <<"undefined">>

(***************************************************************************)
(* JSON.parse(eventData) on the stand-in payload syntax.  ok = FALSE is    *)
(* the SyntaxError; type "none" is a value without a type property.        *)
(***************************************************************************)
KindChars == {"s", "a", "m", "r", "t", "c", "e", "z"}

KindOf(ch) ==
    CASE ch = "s" -> "start"
      [] ch = "a" -> "action"
      [] ch = "m" -> "memory"
      [] ch = "r" -> "response_start"
      [] ch = "t" -> "token"
      [] ch = "c" -> "complete"
      [] ch = "e" -> "error"
      [] OTHER    -> "other"

ParseFail == [ok |-> FALSE, type |-> "none", hasArg |-> FALSE, arg |-> <<>>]

ParseJSON(p) ==
    LET q == Trim(p) IN
    IF q = <<"0">>
    THEN [ok |-> TRUE, type |-> "none", hasArg |-> FALSE, arg |-> <<>>]
    ELSE IF /\ Len(q) >= 3
            /\ q[1] = "{"
            /\ q[Len(q)] = "}"
            /\ q[2] \in KindChars
            /\ \A i \in 3..(Len(q) - 1) : q[i] \notin {"{", "}"}
    THEN [ok |-> TRUE, type |-> KindOf(q[2]), hasArg |-> Len(q) > 3,
          arg |-> SubSeq(q, 3, Len(q) - 1)]
    ELSE ParseFail

(***************************************************************************)
(* data.description.toLowerCase().replace(/\s+/g, '_')  (main.ts:127)      *)
(***************************************************************************)
Uppers ==
    <<"A", "B", "C", "D", "E", "F", "G", "H", "I", "J", "K", "L", "M",
      "N", "O", "P", "Q", "R", "S", "T", "U", "V", "W", "X", "Y", "Z">>
Lowers ==
    <<"a", "b", "c", "d", "e", "f", "g", "h", "i", "j", "k", "l", "m",
      "n", "o", "p", "q", "r", "s", "t", "u", "v", "w", "x", "y", "z">>
Digits == {"0", "1", "2", "3", "4", "5", "6", "7", "8", "9"}

LowerChar(ch) ==
    IF \E i \in 1..26 : Uppers[i] = ch
    THEN Lowers[CHOOSE i \in 1..26 : Uppers[i] = ch] ELSE ch

RECURSIVE ReplaceSpaceRuns(_)
\* every maximal run of whitespace becomes one underscore
ReplaceSpaceRuns(s) ==
    IF s = <<>> THEN <<>>
    ELSE IF Head(s) \in WhiteSpace \cup {NL}
    THEN <<"_">> \o ReplaceSpaceRuns(TrimLeft(Tail(s)))
    ELSE <<Head(s)>> \o ReplaceSpaceRuns(Tail(s))

NormalizeActionType(desc) ==
    ReplaceSpaceRuns([i \in 1..Len(desc) |-> LowerChar(desc[i])])

(***************************************************************************)
(* State.                                                                  *)
(***************************************************************************)
VARIABLES
    \* chat store (stores/chat.ts)
    chatSessionId,      \* sessionId
    messages,           \* messages: sequence of Message
    agentActions,       \* agentActions: sequence of AgentAction
    memoryUpdates,      \* memoryUpdates: key -> value, Undefined when absent
    isTyping,
    chatError,          \* error: Null or a string
    isLoadingHistory,
    sessionMessages,    \* per-session caches: session id -> cache entry
    sessionActions,
    sessionMemory,
    \* preferences store (stores/preferences.ts)
    preferences,
    \* sessions store (stores/sessions.ts)
    sessions,           \* the catalog: sequence of ChatSession
    currentSessionId,
    isLoading,
    sessionsError,      \* error: Null or a string
    \* asynchronous calls that are suspended at an await
    calls,              \* useChat.sendMessage calls, by call number
    loads,              \* loadConversationHistory calls awaiting the backend
    fetches,            \* fetchSessions calls awaiting the backend
    deletes,            \* deleteSession calls awaiting the remote DELETE
    clears,             \* clearAllSessions calls awaiting their DELETEs
    \* bookkeeping
    nextMsgId,          \* message ids handed out by uuidv4()
    nextUuid,           \* session ids handed out by uuidv4()
    clicks,             \* clicks so far: on a session of the list, on a button
    lastOp,             \* the handler step taken last, and what it returned
    \* useSSE (composables/useSSE.ts)
    sse                 \* eventSource, connectionStatus, error; the
                        \* EventSource objects made so far, the pending
                        \* reconnect timers and options.autoReconnect

chatVars == <<chatSessionId, messages, agentActions, memoryUpdates, isTyping,
              chatError, isLoadingHistory>>
cacheVars == <<sessionMessages, sessionActions, sessionMemory>>
sessionVars == <<sessions, currentSessionId, isLoading, sessionsError>>
asyncVars == <<calls, loads, fetches, deletes, clears>>
countVars == <<nextMsgId, nextUuid, clicks>>
appVars == <<chatVars, cacheVars, preferences, sessionVars, asyncVars,
             countVars>>
vars == <<appVars, lastOp, sse>>

(***************************************************************************)
(* Identifiers and texts.                                                  *)
(***************************************************************************)
\* session ids the backend knows
RemoteSids == {101, 102}
\* session ids made by uuidv4(): 1, 2, ...
UuidSids == 1..MaxUuids
Sids == RemoteSids \cup UuidSids

CallIds == 1..MaxCalls

\* what the user types
UserText == <<"h", "i">>
\* the welcome text of initializeWelcome (chat.ts)
WelcomeText == <<"W">>
\* 'Sorry, I encountered an error. Please try again.' (main.ts:193)
StreamErrorText == <<"E", "1">>
\* 'Sorry, I encountered an error sending your message. Please try again.'
SendErrorText == <<"E", "2">>
\* 'Failed to send message. Please try again.' (main.ts:211)
SendFailedError == <<"F", "1">>
\* 'Failed to load conversation history' (chat.ts)
LoadFailedError == <<"F", "2">>
\* 'Failed to load sessions' (sessions.ts:73)
FetchFailedError == <<"F", "3">>
Ellipsis == <<".", ".", ".">>
\* the length of the last-message preview (main.ts:64, main.ts:180)
PreviewLen == 50

Msg(id, role, content, isErr) ==
    [id |-> id, role |-> role, content |-> content, isError |-> isErr]

\* memory / preference keys and the values the backend extracts
MemKeys == {"destination", "budget", "foo"}
PrefKeys == {"destination", "budget"}
EmptyMemory == [k \in MemKeys |-> Undefined]
\* preferences as declared and as reset by clearAllPreferences
EmptyPreferences == [k \in PrefKeys |-> Undefined]

\* a cache entry: absent, the very array/object the store holds now ("live",
\* the cache stores a reference), or an array/object of its own
Absent(empty) == [k |-> "absent", v |-> empty]
Live(empty) == [k |-> "live", v |-> empty]
Own(val) == [k |-> "own", v |-> val]
\* the value a cache entry stands for; live is the store's current value
CacheValue(entry, live) == IF entry.k = "live" THEN live ELSE entry.v
\* the store is about to hold a new array/object: the old one stays in the
\* cache entries that refer to it
Detach(cache, live) ==
    [s \in DOMAIN cache |->
        IF cache[s].k = "live" THEN Own(live) ELSE cache[s]]

(***************************************************************************)
(* The stores as one record, so that a handler is the composition of the   *)
(* store operations it calls.  World is the current state, Commit(w) the   *)
(* state a handler leaves.                                                 *)
(***************************************************************************)
World ==
    [sid |-> chatSessionId, msgs |-> messages, acts |-> agentActions,
     mem |-> memoryUpdates, typing |-> isTyping, err |-> chatError,
     loading |-> isLoadingHistory,
     cMsgs |-> sessionMessages, cActs |-> sessionActions,
     cMem |-> sessionMemory,
     prefs |-> preferences,
     sess |-> sessions, cur |-> currentSessionId,
     sLoading |-> isLoading, sErr |-> sessionsError,
     calls |-> calls,
     nextMsgId |-> nextMsgId, nextUuid |-> nextUuid]

Commit(w) ==
    /\ w.nextUuid <= MaxUuids + 1
    /\ chatSessionId' = w.sid
    /\ messages' = w.msgs
    /\ agentActions' = w.acts
    /\ memoryUpdates' = w.mem
    /\ isTyping' = w.typing
    /\ chatError' = w.err
    /\ isLoadingHistory' = w.loading
    /\ sessionMessages' = w.cMsgs
    /\ sessionActions' = w.cActs
    /\ sessionMemory' = w.cMem
    /\ preferences' = w.prefs
    /\ sessions' = w.sess
    /\ currentSessionId' = w.cur
    /\ isLoading' = w.sLoading
    /\ sessionsError' = w.sErr
    /\ calls' = w.calls
    /\ nextMsgId' = w.nextMsgId
    /\ nextUuid' = w.nextUuid

(***************************************************************************)
(* Chat store operations (chat.ts).                                        *)
(***************************************************************************)
messageCount(w) == Len(w.msgs)

setTyping(w, typing) == [w EXCEPT !.typing = typing]

setError(w, errorMessage) == [w EXCEPT !.err = errorMessage]

\* messages.value.push(message): the array is changed in place
addMessageMutant(w, message) == [w EXCEPT !.msgs = <<message>> \o w.msgs]

addMessage(w, message) == [w EXCEPT !.msgs = Append(w.msgs, message)]

\* the window of recentActions (chat.ts)
RecentLen == 10

\* agentActions.value.slice(-10)
recentActionsMutant(actions) ==
    SubSeq(actions, 1, IF Len(actions) < RecentLen THEN Len(actions)
                       ELSE RecentLen)

recentActions(actions) ==
    LET start == IF Len(actions) - RecentLen < 0 THEN 0
                 ELSE Len(actions) - RecentLen
    IN SubSeq(actions, start + 1, Len(actions))

addAgentActionMutant(w, action) == [w EXCEPT !.acts = <<action>> \o w.acts]

addAgentAction(w, action) == [w EXCEPT !.acts = Append(w.acts, action)]

\* Object.assign(memoryUpdates.value, updates): present keys overwrite
updateMemory(w, updates) ==
    [w EXCEPT !.mem = [k \in MemKeys |->
        IF updates[k] # Undefined THEN updates[k] ELSE w.mem[k]]]

\* The Message object made by response_start is pushed into the array as it
\* is, and the call keeps writing its content (main.ts:162): home says which
\* arrays still hold that very object, the store's array (live) or arrays
\* that only cache entries hold (of).
NoHome == [live |-> FALSE, of |-> {}]

\* messages.value is about to be a new array
DetachMessages(w) ==
    [w EXCEPT
        !.cMsgs = Detach(w.cMsgs, w.msgs),
        !.calls = [c \in DOMAIN w.calls |->
            IF w.calls[c].home.live
            THEN [w.calls[c] EXCEPT !.home =
                    [live |-> FALSE,
                     of |-> {s \in DOMAIN w.cMsgs : w.cMsgs[s].k = "live"}]]
            ELSE w.calls[c]]]

\* sessionMessages.value[id] = messages.value: the entry lets go of the array
\* it held
CacheMessages(w, id) ==
    [w EXCEPT
        !.cMsgs[id] = Live(<<>>),
        !.calls = [c \in DOMAIN w.calls |->
            [w.calls[c] EXCEPT !.home.of = @ \ {id}]]]

\* messages.value = []: a new array
clearMessages(w) == [DetachMessages(w) EXCEPT !.msgs = <<>>]

clearActions(w) ==
    [w EXCEPT !.cActs = Detach(w.cActs, w.acts), !.acts = <<>>]

clearMemory(w) ==
    [w EXCEPT !.cMem = Detach(w.cMem, w.mem), !.mem = EmptyMemory]

clearAll(w) ==
    setError(setTyping(clearMemory(clearActions(clearMessages(w))), FALSE),
             Null)

newSession(w) ==
    clearAll([w EXCEPT !.sid = w.nextUuid, !.nextUuid = w.nextUuid + 1])

initializeWelcomeMutant(w) == [DetachMessages(w) EXCEPT !.msgs = <<>>]

initializeWelcome(w) ==
    [DetachMessages(w) EXCEPT
        !.msgs = <<Msg(w.nextMsgId, "assistant", WelcomeText, FALSE)>>,
        !.nextMsgId = w.nextMsgId + 1]

\* the cache entries become references to the store's arrays and object
saveCurrentSession(w) ==
    [CacheMessages(w, w.sid) EXCEPT
        !.cActs[w.sid] = Live(<<>>),
        !.cMem[w.sid] = Live(EmptyMemory)]

(***************************************************************************)
(* Preferences store operations (stores/preferences.ts).                   *)
(***************************************************************************)
clearAllPreferences(w) == [w EXCEPT !.prefs = EmptyPreferences]

\* for each key of the update that the preferences declare: overwrite
setFromMemoryUpdatesMutant(w, updates) ==
    [w EXCEPT !.prefs = [k \in PrefKeys |-> updates[k]]]

setFromMemoryUpdates(w, updates) ==
    [w EXCEPT !.prefs = [k \in PrefKeys |->
        IF updates[k] # Undefined THEN updates[k] ELSE w.prefs[k]]]

\* Object.keys(chatStore.memoryUpdates).length > 0
HasKeys(mem) == \E k \in MemKeys : mem[k] # Undefined

(***************************************************************************)
(* Sessions store operations (stores/sessions.ts).                         *)
(***************************************************************************)
\* 'New Chat', and 'Travel Planning' held as one character
DefaultTitle == <<"N", "e", "w", " ", "C", "h", "a", "t">>
FallbackTitle == <<"Travel Planning">>
\* the longest generated title (chat.ts, updateSessionTitle)
TitleLen == 30

Session(id, title, lastMessage, count) ==
    [id |-> id, title |-> title, lastMessage |-> lastMessage,
     messageCount |-> count]

\* sessions.value.find(s => s.id === id): its index, 0 when there is none
RECURSIVE FindFrom(_, _, _)
FindFrom(list, id, i) ==
    IF i > Len(list) THEN 0
    ELSE IF list[i].id = id THEN i
    ELSE FindFrom(list, id, i + 1)

Find(list, id) == FindFrom(list, id, 1)

InCatalog(list, id) == Find(list, id) # 0

createSessionMutant(w) ==
    [w EXCEPT !.sess = Append(w.sess,
                              Session(w.nextUuid, DefaultTitle, Null, 0)),
              !.cur = w.nextUuid,
              !.nextUuid = w.nextUuid + 1]

createSession(w) ==
    [w EXCEPT !.sess = <<Session(w.nextUuid, DefaultTitle, Null, 0)>>
                            \o w.sess,
              !.cur = w.nextUuid,
              !.nextUuid = w.nextUuid + 1]

\* Object.assign(session, updates, {lastActivity}) on the session found
updateSessionMutant(w, sessionId, lastMessage, count) ==
    LET i == Find(w.sess, sessionId) IN
    IF i = 0 THEN w
    ELSE [w EXCEPT !.sess[i].lastMessage = lastMessage]

updateSession(w, sessionId, lastMessage, count) ==
    LET i == Find(w.sess, sessionId) IN
    IF i = 0 THEN w
    ELSE [w EXCEPT !.sess[i].lastMessage = lastMessage,
                   !.sess[i].messageCount = count]

UpperChar(ch) ==
    IF \E i \in 1..26 : Lowers[i] = ch
    THEN Uppers[CHOOSE i \in 1..26 : Lowers[i] = ch] ELSE ch

\* the title made from the first message; the texts of this model hold none
\* of the phrases the replace() removes
TitleOf(firstMessage) ==
    LET t0 == Trim(firstMessage)
        t1 == IF t0 = <<>> THEN <<>> ELSE <<UpperChar(Head(t0))>> \o Tail(t0)
        t2 == IF Len(t1) > TitleLen THEN Substring(t1, TitleLen) \o Ellipsis
              ELSE t1
    IN IF t2 = <<>> THEN FallbackTitle ELSE t2

updateSessionTitle(w, sessionId, firstMessage) ==
    LET i == Find(w.sess, sessionId) IN
    IF i # 0 /\ w.sess[i].title = DefaultTitle
    THEN [w EXCEPT !.sess[i].title = TitleOf(firstMessage)]
    ELSE w

\* \w and \s of the regular expression of updateSessionFromMessage
IsWordChar(ch) ==
    \/ \E i \in 1..26 : ch \in {Uppers[i], Lowers[i]}
    \/ ch \in Digits \cup {"_"}
IsSpaceChar(ch) == ch \in WhiteSpace \cup {NL}

RECURSIVE WordEnd(_, _)
\* \w+ from the word character at j: the index of its last character
WordEnd(s, j) ==
    IF j < Len(s) /\ IsWordChar(s[j + 1]) THEN WordEnd(s, j + 1) ELSE j

RECURSIVE SpaceEnd(_, _)
\* \s+ from the whitespace at j: the index of its last character
SpaceEnd(s, j) ==
    IF j < Len(s) /\ IsSpaceChar(s[j + 1]) THEN SpaceEnd(s, j + 1) ELSE j

RECURSIVE WordsEnd(_, _)
\* \w+(?:\s+\w+)* from the word character at j, greedy
WordsEnd(s, j) ==
    LET e == WordEnd(s, j)
        k == IF e < Len(s) /\ IsSpaceChar(s[e + 1]) THEN SpaceEnd(s, e + 1)
             ELSE Len(s)
    IN IF k < Len(s) /\ IsWordChar(s[k + 1]) THEN WordsEnd(s, k + 1) ELSE e

\* \s+(\w+(?:\s+\w+)*) at j: the group it captures, <<>> when it fails
Captured(s, j) ==
    IF j <= Len(s) /\ IsSpaceChar(s[j])
    THEN LET k == SpaceEnd(s, j) IN
         IF k < Len(s) /\ IsWordChar(s[k + 1])
         THEN SubSeq(s, k + 1, WordsEnd(s, k + 1)) ELSE <<>>
    ELSE <<>>

\* word is at position i of s, whatever the case of the letters (flag i)
HasAt(s, i, word) ==
    /\ i + Len(word) - 1 <= Len(s)
    /\ \A k \in 1..Len(word) : LowerChar(s[i + k - 1]) = word[k]

\* .*to and the rest of the expression from position from: .* takes no line
\* terminator and is greedy, so the last 'to' that lets the rest match wins
ViaTo(s, from) ==
    LET P == {p \in from..Len(s) :
                /\ HasAt(s, p, <<"t", "o">>)
                /\ \A k \in from..(p - 1) : s[k] \notin {NL, "\r"}
                /\ Captured(s, p + 2) # <<>>}
    IN IF P = {} THEN <<>>
       ELSE Captured(s, (CHOOSE p \in P : \A q \in P : q <= p) + 2)

\* the expression tried at position i: the alternatives in their order
MatchAt(s, i) ==
    LET a1 == IF HasAt(s, i, <<"t", "o">>) THEN Captured(s, i + 2) ELSE <<>>
        a2 == IF HasAt(s, i, <<"v", "i", "s", "i", "t">>)
              THEN Captured(s, i + 5) ELSE <<>>
        a3 == IF HasAt(s, i, <<"t", "r", "i", "p">>) THEN ViaTo(s, i + 4)
              ELSE <<>>
        a4 == IF HasAt(s, i, <<"g", "o">>) THEN ViaTo(s, i + 2) ELSE <<>>
    IN IF a1 # <<>> THEN a1 ELSE IF a2 # <<>> THEN a2
       ELSE IF a3 # <<>> THEN a3 ELSE a4

\* title.match(/(?:to|visit|trip.*to|go.*to)\s+(\w+(?:\s+\w+)*)/i)[1]: the
\* group of the leftmost match, <<>> when match() returns null
TravelMatch(s) ==
    LET I == {i \in 1..Len(s) : MatchAt(s, i) # <<>>}
    IN IF I = {} THEN <<>>
       ELSE MatchAt(s, CHOOSE i \in I : \A j \in I : i <= j)

TripTo == <<"T", "r", "i", "p", " ", "t", "o", " ">>

\* the title updateSessionFromMessage makes from a message
TitleFromMessage(message) ==
    LET title == Trim(message)
        travelMatch == TravelMatch(title)
    IN IF travelMatch # <<>> THEN TripTo \o travelMatch
       ELSE IF Len(title) > TitleLen
       THEN Substring(title, TitleLen) \o Ellipsis ELSE title

updateSessionFromMessageMutant(w, sessionId, message) ==
    LET i == Find(w.sess, sessionId) IN
    IF i = 0 THEN w
    ELSE [w EXCEPT
            !.sess[i].lastMessage = message,
            !.sess[i].messageCount = @ + 1,
            !.sess[i].title = IF Trim(message) # <<>>
                              THEN TitleFromMessage(message) ELSE @]

updateSessionFromMessageNoCountMutant(w, sessionId, message) ==
    LET i == Find(w.sess, sessionId) IN
    IF i = 0 THEN w
    ELSE [w EXCEPT
            !.sess[i].lastMessage = message,
            !.sess[i].title = IF @ = DefaultTitle /\ Trim(message) # <<>>
                              THEN TitleFromMessage(message) ELSE @]

updateSessionFromMessage(w, sessionId, message) ==
    LET i == Find(w.sess, sessionId) IN
    IF i = 0 THEN w
    ELSE [w EXCEPT
            !.sess[i].lastMessage = message,
            !.sess[i].messageCount = @ + 1,
            !.sess[i].title = IF @ = DefaultTitle /\ Trim(message) # <<>>
                              THEN TitleFromMessage(message) ELSE @]

selectSession(w, sessionId) == [w EXCEPT !.cur = sessionId]

\* sessions.value.filter(s => s.id !== sessionId)
RECURSIVE Without(_, _)
Without(list, id) ==
    IF list = <<>> THEN <<>>
    ELSE IF Head(list).id = id THEN Without(Tail(list), id)
    ELSE <<Head(list)>> \o Without(Tail(list), id)

(***************************************************************************)
(* useChat.sendMessage (composables/useChat.ts): the event switch.         *)
(* The operators take the stores w (which hold the locals of every call,   *)
(* w.calls) and the number me of the call that runs; the call has returned *)
(* once its exit is not "".                                                *)
(***************************************************************************)
\* pc, sid (the sessionId argument), buffer, cur (the id of currentMessage,
\* 0 for null) and content (messageContent) are the locals of a call; wire is
\* what the response body has yet to deliver.  Bookkeeping: exit (how the
\* call returned), body (the whole response body), applied (the events the
\* switch has handled), sent (the id of the user message), carried (a read
\* has left an unfinished line in the buffer).
NoCall ==
    [pc |-> "idle", sid |-> 0, wire |-> <<>>, buffer |-> <<>>, cur |-> 0,
     content |-> <<>>, home |-> NoHome, exit |-> "", body |-> <<>>,
     applied |-> <<>>, sent |-> 0, carried |-> FALSE]

\* the updates object of a memory event: one character per key/value
UpdatesOf(arg) ==
    [k \in MemKeys |->
        CASE k = "destination" ->
                 IF \E i \in 1..Len(arg) : arg[i] \in {"d", "D"}
                 THEN LET j == CHOOSE i \in 1..Len(arg) :
                                 /\ arg[i] \in {"d", "D"}
                                 /\ \A m \in (i + 1)..Len(arg) :
                                        arg[m] \notin {"d", "D"}
                      IN IF arg[j] = "d" THEN <<"G", "o", "a">>
                         ELSE <<"T", "o", "k", "y", "o">>
                 ELSE Undefined
          [] k = "budget" ->
                 IF \E i \in 1..Len(arg) : arg[i] = "b"
                 THEN <<"2", "5", "0", "0", "0">> ELSE Undefined
          [] OTHER ->
                 IF \E i \in 1..Len(arg) : arg[i] = "f"
                 THEN <<"1">> ELSE Undefined]

\* the events the switch has handled, in order (bookkeeping)
Logged(w, me, data) ==
    [w EXCEPT !.calls[me].applied =
        Append(@, [type |-> data.type, arg |-> data.arg])]

\* chatStore.messages.findIndex(m => m.id === currentMessage?.id)
FindIndex(msgs, id) == Find(msgs, id)

\* list with the content of the message id, if any, set to content
WithContent(list, id, content) ==
    [i \in 1..Len(list) |->
        IF list[i].id = id THEN [list[i] EXCEPT !.content = content]
        ELSE list[i]]

\* messageContent += data.content
TokenContent(old, data) ==
    old \o (IF data.hasArg THEN data.arg ELSE Undefined)

\* case 'token'
OnTokenMutant(w, me, data) ==
    LET c == w.calls[me] IN
    IF c.cur = 0 THEN w
    ELSE LET content == TokenContent(c.content, data)
         IN addMessage([w EXCEPT !.calls[me].content = content],
                       Msg(c.cur, "assistant", content, FALSE))

OnToken(w, me, data) ==
    LET c == w.calls[me] IN
    IF c.cur = 0 THEN w
    ELSE LET content == TokenContent(c.content, data)
             idx == FindIndex(w.msgs, c.cur)
         IN [w EXCEPT
                !.calls[me].content = content,
                \* currentMessage.content = messageContent reaches the arrays
                \* that hold the object itself
                !.cMsgs = [s \in DOMAIN w.cMsgs |->
                    IF s \in c.home.of
                    THEN Own(WithContent(w.cMsgs[s].v, c.cur, content))
                    ELSE w.cMsgs[s]],
                \* chatStore.messages[messageIndex] = { ...currentMessage }
                !.msgs = IF idx = 0 THEN w.msgs
                         ELSE [w.msgs EXCEPT ![idx] =
                                 Msg(c.cur, "assistant", content, FALSE)],
                !.calls[me].home.live = FALSE]

\* case 'response_start'
OnResponseStartMutant(w, me) ==
    LET w1 == addMessage(w, Msg(w.nextMsgId, "assistant", <<>>, FALSE))
    IN setTyping([w1 EXCEPT !.calls[me].cur = w.nextMsgId,
                            !.calls[me].home = [live |-> TRUE, of |-> {}],
                            !.nextMsgId = @ + 1],
                 FALSE)

OnResponseStart(w, me) ==
    LET w1 == addMessage(w, Msg(w.nextMsgId, "assistant", <<>>, FALSE))
    IN setTyping([w1 EXCEPT !.calls[me].cur = w.nextMsgId,
                            !.calls[me].content = <<>>,
                            !.calls[me].home = [live |-> TRUE, of |-> {}],
                            !.nextMsgId = @ + 1],
                 FALSE)

\* messages[messages.length - 1]?.content.substring(0, 50) + '...' || ''
LastPreview(msgs) ==
    IF msgs = <<>> THEN Undefined \o Ellipsis
    ELSE Substring(msgs[Len(msgs)].content, PreviewLen) \o Ellipsis

\* case 'complete'
OnComplete(w, me) ==
    LET w1 == saveCurrentSession(setTyping(w, FALSE))
        w2 == updateSession(w1, w.calls[me].sid, LastPreview(w1.msgs),
                            messageCount(w1))
    IN [w2 EXCEPT !.calls[me].exit = "complete"]

\* case 'error'
OnErrorMutant(w, me, data) ==
    LET w1 == setError(w, IF data.hasArg THEN data.arg ELSE Undefined)
        text == IF data.hasArg /\ data.arg # <<>> THEN data.arg
                ELSE StreamErrorText
        w2 == addMessage(w1, Msg(w1.nextMsgId, "assistant", text, TRUE))
    IN [w2 EXCEPT !.nextMsgId = @ + 1, !.calls[me].exit = "error"]

OnError(w, me, data) ==
    LET w1 == setError(setTyping(w, FALSE),
                       IF data.hasArg THEN data.arg ELSE Undefined)
        text == IF data.hasArg /\ data.arg # <<>> THEN data.arg
                ELSE StreamErrorText
        w2 == addMessage(w1, Msg(w1.nextMsgId, "assistant", text, TRUE))
    IN [w2 EXCEPT !.nextMsgId = @ + 1, !.calls[me].exit = "error"]

\* switch (data.type) when no case matches: nothing is done
NoCaseMutant(w) == setTyping(w, TRUE)

NoCase(w) == w

\* switch (data.type); a TypeError thrown by a case is caught by the catch
\* of the line, as the SyntaxError of JSON.parse is
Dispatch(w, me, data) ==
    LET wl == Logged(w, me, data) IN
    CASE data.type = "start" -> setTyping(wl, TRUE)
      [] data.type = "action" ->
            IF ~data.hasArg THEN w
            ELSE addAgentAction(wl,
                     [action_type |-> NormalizeActionType(data.arg),
                      description |-> data.arg])
      [] data.type = "memory" ->
            IF ~data.hasArg THEN wl
            ELSE setFromMemoryUpdates(updateMemory(wl, UpdatesOf(data.arg)),
                                      UpdatesOf(data.arg))
      [] data.type = "response_start" -> OnResponseStart(wl, me)
      [] data.type = "token" -> OnToken(wl, me, data)
      [] data.type = "complete" -> OnComplete(wl, me)
      [] data.type = "error" -> OnError(wl, me, data)
      [] OTHER -> NoCase(w)

\* the body of for (const line of lines)
ProcessLineMutant(w, me, line) ==
    IF ~StartsWith(line, DataPrefix) THEN w
    ELSE LET eventData == Slice(line, DataPrefixLen) IN
         IF Trim(eventData) = <<>> THEN w
         ELSE LET data == ParseJSON(eventData) IN
              IF ~data.ok THEN [w EXCEPT !.calls[me].exit = "failed"]
              ELSE Dispatch(w, me, data)

ProcessLine(w, me, line) ==
    IF ~StartsWith(line, DataPrefix) THEN w
    ELSE LET eventData == Slice(line, DataPrefixLen) IN
         IF Trim(eventData) = <<>> THEN w
         ELSE LET data == ParseJSON(eventData) IN
              IF ~data.ok THEN w ELSE Dispatch(w, me, data)

RECURSIVE ProcessLinesMutant(_, _, _, _)
\* the for loop, left by the return of complete and error
ProcessLinesMutant(w, me, lines, i) ==
    IF i > Len(lines) THEN w
    ELSE ProcessLinesMutant(ProcessLine(w, me, lines[i]), me, lines, i + 1)

RECURSIVE ProcessLines(_, _, _, _)
ProcessLines(w, me, lines, i) ==
    IF i > Len(lines) \/ w.calls[me].exit # "" THEN w
    ELSE ProcessLines(ProcessLine(w, me, lines[i]), me, lines, i + 1)

\* buffer = lines.pop() || ''
KeptBufferMutant(lines) == <<>>

KeptBuffer(lines) == lines[Len(lines)]

\* one turn of the while loop after a read that was not done
ProcessChunk(w, me, chunk) ==
    LET lines == Split(w.calls[me].buffer \o chunk)
        w1 == [w EXCEPT !.calls[me].buffer = KeptBuffer(lines),
                        !.calls[me].carried = @ \/ KeptBuffer(lines) # <<>>]
    IN ProcessLines(w1, me, SubSeq(lines, 1, Len(lines) - 1), 1)

(***************************************************************************)
(* Response bodies of POST /chat/message/stream.                           *)
(***************************************************************************)
Line(payload) == DataPrefix \o payload \o <<NL>>

LStart == Line(<<"{", "s", "}">>)
LAction == Line(<<"{", "a", "S", " ", "F", "}">>)
LActionNoDescription == Line(<<"{", "a", "}">>)
LActionBook == Line(<<"{", "a", "B", "o", "o", "k", "}">>)
LMemoryDest == Line(<<"{", "m", "d", "}">>)
LMemoryBudget == Line(<<"{", "m", "b", "}">>)
LMemoryTokyoFoo == Line(<<"{", "m", "D", "f", "}">>)
LResponseStart == Line(<<"{", "r", "}">>)
LTokenX == Line(<<"{", "t", "x", "}">>)
LTokenY == Line(<<"{", "t", "y", "}">>)
LComplete == Line(<<"{", "c", "}">>)
LError == Line(<<"{", "e", "X", "}">>)
LErrorNoMessage == Line(<<"{", "e", "}">>)
LUnknownKind == Line(<<"{", "z", "}">>)
\* a payload JSON.parse rejects
LMalformed == Line(<<"{", "t", "x">>)
\* an SSE comment line, and the blank line that ends an SSE event
LComment == <<":", "k", NL>>
LBlank == <<NL>>
\* 'data: ' with an empty payload
LEmptyData == Line(<<>>)
\* a complete event without the newline that ends its line
UnterminatedComplete == DataPrefix \o <<"{", "c", "}">>

RECURSIVE ActionLines(_)
\* n action events, described by the first n letters
ActionLines(n) ==
    IF n = 0 THEN <<>>
    ELSE ActionLines(n - 1) \o Line(<<"{", "a", Uppers[n], "}">>)

\* the bodies of the streaming specification: the normal exchange, streams
\* with a malformed, foreign or empty line among the events, streams that
\* end early, error streams, tokens before response_start, and one action
\* more than recentActions shows
StreamBodies ==
    { LStart \o LResponseStart \o LTokenX \o LTokenY \o LComplete,
      LStart \o LResponseStart \o LComplete,
      LStart \o LMalformed \o LResponseStart \o LTokenX \o LComplete,
      LStart \o LResponseStart \o LMalformed \o LTokenX \o LMalformed
          \o LTokenY \o LComplete,
      LComment \o LStart \o LBlank \o LResponseStart \o LEmptyData
          \o LTokenX \o LUnknownKind \o LComplete \o LTokenY,
      LStart \o LAction \o LMemoryDest \o LActionNoDescription
          \o LMemoryBudget \o LActionBook \o LMemoryTokyoFoo
          \o LResponseStart \o LTokenX \o LComplete,
      LTokenY \o LResponseStart \o LTokenX \o LResponseStart \o LTokenY
          \o LComplete,
      LStart \o LResponseStart \o LTokenX \o LError \o LTokenY,
      LStart \o LError,
      LStart \o LErrorNoMessage,
      LStart,
      LStart \o LResponseStart \o LTokenX,
      LStart \o LResponseStart \o LTokenX \o UnterminatedComplete,
      ActionLines(RecentLen + 1),
      <<>> }

\* the bodies of the specifications that interleave calls and sessions
ShortBodies ==
    { LResponseStart \o LTokenX \o LTokenY \o LComplete,
      LStart }

(***************************************************************************)
(* Init: the stores have been created and the components mounted.          *)
(* The sessions store has started initialize() (sessions.ts:210), the      *)
(* sidebar, finding no sessions yet, has started a fetchSessions() of its  *)
(* own, and App.vue has copied the current session id into the chat store  *)
(* and started loadConversationHistory for it.  The current session id is  *)
(* the one kept in local storage: a fresh uuid or an id the backend knows. *)
(* The caches start empty.                                                 *)
(***************************************************************************)
Op(name, arg, ret) == [op |-> name, arg |-> arg, ret |-> ret]

\* useSSE before connect is called: eventSource is the number of the
\* EventSource it refers to (0 for null), sources the readyState of every
\* EventSource made (a closed one is never used again)
NoSSE ==
    [eventSource |-> 0, connectionStatus |-> "disconnected", error |-> Null,
     sources |-> <<>>, timers |-> 0, autoReconnect |-> TRUE]

Init ==
    /\ currentSessionId \in {1} \cup RemoteSids
    /\ chatSessionId = currentSessionId
    /\ messages = <<>>
    /\ agentActions = <<>>
    /\ memoryUpdates = EmptyMemory
    /\ isTyping = FALSE
    /\ chatError = Null
    /\ isLoadingHistory = TRUE
    /\ sessionMessages = [s \in Sids |-> Absent(<<>>)]
    /\ sessionActions = [s \in Sids |-> Absent(<<>>)]
    /\ sessionMemory = [s \in Sids |-> Absent(EmptyMemory)]
    /\ preferences = EmptyPreferences
    /\ sessions = <<>>
    /\ isLoading = TRUE
    /\ sessionsError = Null
    /\ calls = [c \in CallIds |-> NoCall]
    /\ loads = <<[sid |-> currentSessionId, from |-> "mount"]>>
    /\ fetches = <<"initialize", "fetch">>
    /\ deletes = <<>>
    /\ clears = 0
    /\ nextMsgId = 1
    /\ nextUuid = 2
    /\ clicks = [select |-> 0, button |-> 0]
    /\ lastOp = Op("mount", 0, TRUE)
    /\ sse = NoSSE

pendingVars == <<loads, fetches, deletes, clears>>
queueVars == <<pendingVars, clicks>>

\* the user clicks a button of the sidebar or of the header
ClickButton ==
    /\ clicks.button < MaxClicks
    /\ clicks' = [clicks EXCEPT !.button = @ + 1]

\* s without its i-th element
RemoveAt(s, i) == SubSeq(s, 1, i - 1) \o SubSeq(s, i + 1, Len(s))

(***************************************************************************)
(* ChatInterface.vue: handleSubmit and sendQuickSuggestion call            *)
(* sendMessage(chatStore.sessionId, text) unless the store is typing.      *)
(* Send is sendMessage up to its await fetch(...).                         *)
(***************************************************************************)
\* content.length > 50 ? content.substring(0, 50) + '...' : content
SentPreview(content) ==
    IF Len(content) > PreviewLen
    THEN Substring(content, PreviewLen) \o Ellipsis ELSE content

\* canSend / the guard of sendQuickSuggestion
CanSend == ~isTyping

Send(me) ==
    /\ CanSend
    /\ calls[me].pc = "idle"
    /\ \A c \in CallIds : c < me => calls[c].pc # "idle"
    /\ LET content == Trim(UserText)
           w1 == addMessage(World, Msg(nextMsgId, "user", content, FALSE))
           w2 == [w1 EXCEPT !.nextMsgId = @ + 1]
           w3 == IF messageCount(w2) <= 2
                 THEN updateSessionTitle(w2, chatSessionId, UserText)
                 ELSE w2
           w4 == updateSession(w3, chatSessionId, SentPreview(UserText),
                               messageCount(w3))
           w5 == setTyping(w4, TRUE)
       IN Commit([w5 EXCEPT !.calls[me].pc = "fetching",
                            !.calls[me].sid = chatSessionId,
                            !.calls[me].sent = nextMsgId])
    /\ lastOp' = Op("send", me, TRUE)
    /\ UNCHANGED queueVars
    /\ UNCHANGED sse

\* what sends sendMessage to its catch block before the first read: fetch
\* rejects, the status is not a success, the response has no body
FetchFailures == {"rejected", "notOk", "noBody"}

\* the catch block of sendMessage
FailedMutant(w, me) ==
    LET w1 == setError(w, SendFailedError)
        w2 == addMessage(w1, Msg(w1.nextMsgId, "assistant", SendErrorText,
                                 TRUE))
    IN [w2 EXCEPT !.nextMsgId = @ + 1,
                  !.calls[me].pc = "done",
                  !.calls[me].exit = "failed"]

Failed(w, me) ==
    LET w1 == setTyping(setError(w, SendFailedError), FALSE)
        w2 == addMessage(w1, Msg(w1.nextMsgId, "assistant", SendErrorText,
                                 TRUE))
    IN [w2 EXCEPT !.nextMsgId = @ + 1,
                  !.calls[me].pc = "done",
                  !.calls[me].exit = "failed"]

\* fetch resolves with a success status and a body
FetchOk(me, body) ==
    /\ calls[me].pc = "fetching"
    /\ Commit([World EXCEPT !.calls[me].pc = "reading",
                            !.calls[me].wire = body,
                            !.calls[me].body = body])
    /\ lastOp' = Op("fetchOk", me, TRUE)
    /\ UNCHANGED queueVars
    /\ UNCHANGED sse

\* fetch rejects, or resolves with a non-success status or without a body
FetchFail(me, failure) ==
    /\ calls[me].pc = "fetching"
    /\ failure \in FetchFailures
    /\ Commit(Failed(World, me))
    /\ lastOp' = Op("fetchFail", me, failure)
    /\ UNCHANGED queueVars
    /\ UNCHANGED sse

\* reader.read() resolves with the next n characters of the body
ReadChunk(me, n) ==
    /\ calls[me].pc = "reading"
    /\ n \in 1..Len(calls[me].wire)
    /\ LET chunk == SubSeq(calls[me].wire, 1, n)
           w1 == [World EXCEPT !.calls[me].wire = Slice(@, n)]
           w2 == ProcessChunk(w1, me, chunk)
       IN /\ Commit(IF w2.calls[me].exit # ""
                    THEN [w2 EXCEPT !.calls[me].pc = "done"] ELSE w2)
          /\ lastOp' = Op("read", me, w2.calls[me].exit # "")
    /\ UNCHANGED queueVars
    /\ UNCHANGED sse

\* reader.read() resolves with done: break, 'Streaming ended'
ReadDone(me) ==
    /\ calls[me].pc = "reading"
    /\ calls[me].wire = <<>>
    /\ Commit([World EXCEPT !.calls[me].pc = "done",
                            !.calls[me].exit = "eof"])
    /\ lastOp' = Op("readDone", me, TRUE)
    /\ UNCHANGED queueVars
    /\ UNCHANGED sse

\* reader.read() rejects
ReadFail(me) ==
    /\ calls[me].pc = "reading"
    /\ Commit(Failed(World, me))
    /\ lastOp' = Op("readFail", me, TRUE)
    /\ UNCHANGED queueVars
    /\ UNCHANGED sse

(***************************************************************************)
(* chatStore.loadConversationHistory and switchSession (chat.ts).          *)
(***************************************************************************)
\* GET /chat/history/{id}: the messages the backend may hold for a session
BackendHistory ==
    <<[role |-> "user", content |-> UserText],
      [role |-> "assistant", content |-> <<"o", "k">>]>>
\* GET /chat/context/{id}: the preferences the backend may hold
BackendPreferences ==
    [k \in MemKeys |-> IF k = "destination" THEN <<"G", "o", "a">>
                       ELSE Undefined]
\* how the two requests of Promise.all may end
HistoryOutcomes == {"throw", "notOk", "empty", "messages"}
ContextOutcomes == {"notOk", "none", "preferences"}

\* the cache holds more than one message for the session
CacheHit(w, id) ==
    /\ w.cMsgs[id].k # "absent"
    /\ Len(CacheValue(w.cMsgs[id], w.msgs)) > 1

\* the synchronous start of loadConversationHistory
LoadBegin(w) == [w EXCEPT !.loading = TRUE, !.err = Null]

\* the cache branch: the messages are copied, the actions and the memory
\* are taken as they are (the store then holds the cached array and object)
LoadFromCache(w, id) ==
    LET w1 == [DetachMessages(w) EXCEPT
                  !.msgs = CacheValue(w.cMsgs[id], w.msgs)]
        w2 == IF w1.cActs[id].k = "live" THEN w1
              ELSE IF w1.cActs[id].k = "absent"
              THEN [w1 EXCEPT !.cActs = Detach(w1.cActs, w1.acts),
                              !.acts = <<>>]
              ELSE [w1 EXCEPT
                      !.cActs = [Detach(w1.cActs, w1.acts)
                                    EXCEPT ![id] = Live(<<>>)],
                      !.acts = w1.cActs[id].v]
        w3 == IF w2.cMem[id].k = "live" THEN w2
              ELSE IF w2.cMem[id].k = "absent"
              THEN [w2 EXCEPT !.cMem = Detach(w2.cMem, w2.mem),
                              !.mem = EmptyMemory]
              ELSE [w2 EXCEPT
                      !.cMem = [Detach(w2.cMem, w2.mem)
                                   EXCEPT ![id] = Live(EmptyMemory)],
                      !.mem = w2.cMem[id].v]
    IN [w3 EXCEPT !.loading = FALSE]

\* backendMessages: the history with fresh ids
FromBackend(history, firstId) ==
    [i \in 1..Len(history) |->
        Msg(firstId + i - 1, history[i].role, history[i].content, FALSE)]

\* the backend branch, after Promise.all has settled
LoadFromBackend(w, id, history, context) ==
    IF history = "throw"
    THEN [initializeWelcome(setError(w, LoadFailedError))
             EXCEPT !.loading = FALSE]
    ELSE LET w1 == IF history = "messages"
                   THEN CacheMessages(
                          [DetachMessages(w) EXCEPT
                              !.msgs = FromBackend(BackendHistory,
                                                   w.nextMsgId),
                              !.nextMsgId = @ + Len(BackendHistory)],
                          id)
                   ELSE initializeWelcome(w)
             w2 == IF context = "notOk" THEN w1
                   ELSE IF context = "preferences"
                   THEN [w1 EXCEPT
                           !.cMem = [Detach(w1.cMem, w1.mem)
                                        EXCEPT ![id] = Live(EmptyMemory)],
                           !.mem = BackendPreferences]
                   ELSE [w1 EXCEPT
                           !.cMem = [Detach(w1.cMem, w1.mem)
                                        EXCEPT ![id] = Own(EmptyMemory)],
                           !.mem = EmptyMemory]
         IN [w2 EXCEPT !.loading = FALSE]

\* what the caller of the load does once it has returned: App.vue onMounted
\* ("mount"), SessionSidebar selectSession and deleteSession
AfterLoad(w, from) ==
    LET w1 == IF from = "mount" THEN w ELSE clearAllPreferences(w)
    IN IF HasKeys(w1.mem) THEN setFromMemoryUpdates(w1, w1.mem) ELSE w1

\* switchSession up to the await of the load
SwitchBeginMutant(w, newSessionId) ==
    LET w1 == clearAll(w)
        w2 == IF Len(w.msgs) > 0 THEN saveCurrentSession(w1) ELSE w1
    IN LoadBegin([w2 EXCEPT !.sid = newSessionId])

SwitchBegin(w, newSessionId) ==
    LET w1 == IF Len(w.msgs) > 0 THEN saveCurrentSession(w) ELSE w
        w2 == clearAll(w1)
    IN LoadBegin([w2 EXCEPT !.sid = newSessionId])

\* switchSession as far as it runs without the backend, then the caller's
\* continuation if the load came from the cache; q is the queue of loads
SwitchSession(w, q, newSessionId, from) ==
    LET w1 == SwitchBegin(w, newSessionId) IN
    IF CacheHit(w1, newSessionId)
    THEN [w |-> AfterLoad(LoadFromCache(w1, newSessionId), from), loads |-> q]
    ELSE [w |-> w1,
          loads |-> Append(q, [sid |-> newSessionId, from |-> from])]

\* the backend answers a pending loadConversationHistory
LoadResolve(i, history, context) ==
    /\ i \in 1..Len(loads)
    /\ Commit(AfterLoad(LoadFromBackend(World, loads[i].sid, history,
                                        context),
                        loads[i].from))
    /\ loads' = RemoveAt(loads, i)
    /\ lastOp' = Op("loaded", loads[i].sid, history # "throw")
    /\ UNCHANGED <<fetches, deletes, clears, clicks>>
    /\ UNCHANGED sse

(***************************************************************************)
(* Sessions store: fetchSessions, initialize, deleteSession,               *)
(* clearAllSessions (sessions.ts), and the handlers of SessionSidebar.vue  *)
(* and App.vue that call them.                                             *)
(***************************************************************************)
\* a record of GET /chat/sessions: the backend holds two messages for
\* session 101 and none yet for the others
Remote(id) ==
    [session_id |-> id, title |-> <<"T">>, last_message |-> <<"m">>,
     message_count |-> IF id = 101 THEN 2 ELSE 0]
\* the listings the backend may answer with
RemoteListings ==
    {<<>>, <<Remote(101)>>, <<Remote(101), Remote(102)>>}

\* data.sessions.map(...): the remote field names become the local ones
FromListing(listing) ==
    [i \in 1..Len(listing) |->
        Session(listing[i].session_id, listing[i].title,
                listing[i].last_message, listing[i].message_count)]

\* the try block of fetchSessions after the response has been read
FetchedMutant(w, listing) ==
    LET list == FromListing(listing) IN
    [w EXCEPT !.sess = list,
              !.cur = IF list # <<>> THEN list[1].id ELSE w.cur]

Fetched(w, listing) ==
    LET list == FromListing(listing) IN
    [w EXCEPT !.sess = list,
              !.cur = IF ~InCatalog(list, w.cur) /\ list # <<>>
                      THEN list[1].id ELSE w.cur]

\* initialize, after its fetchSessions has returned
Initialized(w) == IF Len(w.sess) = 0 THEN createSession(w) ELSE w

\* what follows the await of a fetchSessions call started by who
AfterFetch(w, who) == IF who = "initialize" THEN Initialized(w) ELSE w

\* GET /chat/sessions answers with a listing
FetchSessionsOk(i, listing) ==
    /\ i \in 1..Len(fetches)
    /\ Commit(AfterFetch([Fetched(World, listing) EXCEPT !.sLoading = FALSE],
                         fetches[i]))
    /\ fetches' = RemoveAt(fetches, i)
    /\ lastOp' = Op(fetches[i], listing, TRUE)
    /\ UNCHANGED <<loads, deletes, clears, clicks>>
    /\ UNCHANGED sse

\* the catch and finally blocks of fetchSessions
FetchFailedMutant(w) == [w EXCEPT !.sLoading = FALSE]

FetchFailed(w) == [w EXCEPT !.sErr = FetchFailedError, !.sLoading = FALSE]

\* the request rejects, answers a non-success status or an unreadable body
FetchSessionsFail(i) ==
    /\ i \in 1..Len(fetches)
    /\ Commit(AfterFetch(FetchFailed(World), fetches[i]))
    /\ fetches' = RemoveAt(fetches, i)
    /\ lastOp' = Op(fetches[i], 0, FALSE)
    /\ UNCHANGED <<loads, deletes, clears, clicks>>
    /\ UNCHANGED sse

\* the Refresh button: refreshSessions, fetchSessions up to its await
Refresh ==
    /\ ClickButton
    /\ Commit([World EXCEPT !.sLoading = TRUE, !.sErr = Null])
    /\ fetches' = Append(fetches, "refresh")
    /\ lastOp' = Op("refreshRequest", 0, TRUE)
    /\ UNCHANGED <<loads, deletes, clears>>
    /\ UNCHANGED sse

\* SessionSidebar createNewChat (the New Chat and + Add buttons)
CreateNewChat ==
    /\ Commit(initializeWelcome(clearAllPreferences(newSession(
                createSession(World)))))
    /\ ClickButton
    /\ lastOp' = Op("createNewChat", nextUuid, TRUE)
    /\ UNCHANGED pendingVars
    /\ UNCHANGED sse

\* App.vue startNewChat (the New Chat button of the header)
StartNewChat ==
    /\ LET w1 == clearAllPreferences(newSession(createSession(World)))
       IN Commit(initializeWelcome([w1 EXCEPT !.sid = nextUuid]))
    /\ ClickButton
    /\ lastOp' = Op("startNewChat", nextUuid, TRUE)
    /\ UNCHANGED pendingVars
    /\ UNCHANGED sse

\* SessionSidebar selectSession: a click on a session of the list
SelectSession(id) ==
    /\ InCatalog(sessions, id)
    /\ id # currentSessionId
    /\ clicks.select < MaxSelects
    /\ LET r == SwitchSession(selectSession(World, id), loads, id, "select")
       IN /\ Len(r.loads) <= MaxLoads
          /\ Commit(r.w)
          /\ loads' = r.loads
    /\ clicks' = [clicks EXCEPT !.select = @ + 1]
    /\ lastOp' = Op("select", id, TRUE)
    /\ UNCHANGED <<fetches, deletes, clears>>
    /\ UNCHANGED sse

\* the guard of deleteSession: it is the only session
IsLastSessionMutant(list) == Len(list) < 1

IsLastSession(list) == Len(list) <= 1

\* SessionSidebar deleteSession, when the store refuses: return false
DeleteRejected(id) ==
    /\ InCatalog(sessions, id)
    /\ IsLastSession(sessions)
    /\ lastOp' = Op("delete", id, FALSE)
    /\ UNCHANGED <<chatVars, cacheVars, preferences, sessionVars, asyncVars,
                   countVars>>
    /\ UNCHANGED sse

\* SessionSidebar deleteSession up to await fetch(..., {method: 'DELETE'})
DeleteBegin(id) ==
    /\ InCatalog(sessions, id)
    /\ ~IsLastSession(sessions)
    /\ Len(deletes) < MaxDeletes
    /\ ClickButton
    /\ deletes' = Append(deletes, id)
    /\ lastOp' = Op("deleteRequest", id, TRUE)
    /\ UNCHANGED <<chatVars, cacheVars, preferences, sessionVars, calls,
                   loads, fetches, clears, nextMsgId, nextUuid>>
    /\ UNCHANGED sse

\* how the DELETE request may end: a success status, another status, a
\* rejection
DeleteOutcomes == {"ok", "notOk", "throw"}

\* deleteSession after the DELETE has settled, whatever its outcome: the
\* session is removed; return true
DeletedMutant(w, id) == [w EXCEPT !.sess = Without(w.sess, id)]

Deleted(w, id) ==
    LET w1 == [w EXCEPT !.sess = Without(w.sess, id)] IN
    IF w1.cur = id
    THEN IF Len(w1.sess) > 0 THEN [w1 EXCEPT !.cur = w1.sess[1].id]
         ELSE createSession(w1)
    ELSE w1

\* the DELETE settles; then the sidebar switches the chat to the current
\* session
DeleteResolve(i, outcome) ==
    /\ i \in 1..Len(deletes)
    /\ outcome \in DeleteOutcomes
    /\ LET id == deletes[i]
           w1 == Deleted(World, id)
           r == IF w1.cur # id
                THEN SwitchSession(w1, loads, w1.cur, "delete")
                ELSE [w |-> w1, loads |-> loads]
       IN /\ w1.nextUuid <= MaxUuids + 1
          /\ Len(r.loads) <= MaxLoads
          /\ Commit(r.w)
          /\ loads' = r.loads
          /\ lastOp' = Op("deleted",
                          [id |-> id, outcome |-> outcome,
                           wasCurrent |-> currentSessionId = id],
                          TRUE)
    /\ deletes' = RemoveAt(deletes, i)
    /\ UNCHANGED <<fetches, clears, clicks>>
    /\ UNCHANGED sse

\* clearAllSessions after its DELETE requests, and the sidebar's handler
\* after it
Cleared(w) ==
    initializeWelcome(clearAllPreferences(newSession(
        createSession([w EXCEPT !.sess = <<>>]))))

\* SessionSidebar clearAllSessions with no session to delete remotely
ClearAllEmpty ==
    /\ Len(sessions) = 0
    /\ ClickButton
    /\ Commit(Cleared(World))
    /\ lastOp' = Op("cleared", 0, TRUE)
    /\ UNCHANGED pendingVars
    /\ UNCHANGED sse

\* SessionSidebar clearAllSessions up to the first await fetch(DELETE)
ClearAllBegin ==
    /\ Len(sessions) > 0
    /\ clears = 0
    /\ ClickButton
    /\ clears' = clears + 1
    /\ lastOp' = Op("clearRequest", 0, TRUE)
    /\ UNCHANGED <<chatVars, cacheVars, preferences, sessionVars, calls,
                   loads, fetches, deletes, nextMsgId, nextUuid>>
    /\ UNCHANGED sse

\* the DELETE requests have settled
ClearAllResolve ==
    /\ clears > 0
    /\ Commit(Cleared(World))
    /\ clears' = clears - 1
    /\ lastOp' = Op("cleared", 0, TRUE)
    /\ UNCHANGED <<loads, fetches, deletes, clicks>>
    /\ UNCHANGED sse

(***************************************************************************)
(* sessionsStore.updateSessionFromMessage, called with any session id and  *)
(* any of a few messages.                                                  *)
(***************************************************************************)
\* the messages: empty, blank, the default title itself, a greeting, a
\* travel intent, a word that merely holds 'to', and one of 31 characters
TitleMessages ==
    { <<>>,
      <<" ", " ">>,
      <<" ", "N", "e", "w", " ", "C", "h", "a", "t", " ">>,
      UserText,
      <<"G", "o", " ", "t", "o", " ", "G", "o", "a", "!">>,
      <<"p", "h", "o", "t", "o", " ", "o", "p">>,
      [i \in 1..(TitleLen + 1) |-> "x"] }

UpdateSessionFromMessage(id, message) ==
    /\ \A i \in 1..Len(sessions) :
          sessions[i].id = id => sessions[i].messageCount < MaxMessageCount
    /\ Commit(updateSessionFromMessage(World, id, message))
    /\ lastOp' = Op("updateSessionFromMessage", <<id, message>>, TRUE)
    /\ UNCHANGED queueVars
    /\ UNCHANGED sse

(***************************************************************************)
(* useSSE (composables/useSSE.ts): the notification channel.  An           *)
(* EventSource that meets a network error stays CONNECTING and is          *)
(* reconnected by the browser; one that meets a fatal error (a status      *)
(* other than 200, a wrong content type) is CLOSED.  Both fire onerror.    *)
(***************************************************************************)
\* connect(sessionId, options)
connect(s) ==
    IF s.eventSource # 0 /\ s.sources[s.eventSource] = "open" THEN s
    ELSE [s EXCEPT !.connectionStatus = "connecting",
                   !.error = Null,
                   !.sources = Append(@, "connecting"),
                   !.eventSource = Len(s.sources) + 1]

\* disconnect()
disconnect(s) ==
    LET s1 == IF s.eventSource # 0
              THEN [s EXCEPT !.sources[s.eventSource] = "closed",
                             !.eventSource = 0]
              ELSE s
    IN [s1 EXCEPT !.connectionStatus = "disconnected", !.error = Null]

\* the component calls connect, with or without autoReconnect
SSEConnect(auto) ==
    /\ sse.sources = <<>>
    /\ sse' = connect([sse EXCEPT !.autoReconnect = auto])
    /\ lastOp' = Op("sseConnect", 0, auto)
    /\ UNCHANGED appVars

\* onopen of the k-th EventSource
SSEOpen(k) ==
    /\ k \in 1..Len(sse.sources)
    /\ sse.sources[k] = "connecting"
    /\ sse' = [sse EXCEPT !.sources[k] = "open",
                          !.connectionStatus = "connected"]
    /\ lastOp' = Op("sseOpen", k, TRUE)
    /\ UNCHANGED appVars

\* onmessage of the k-th EventSource with a 'connected' event
SSEMessage(k) ==
    /\ k \in 1..Len(sse.sources)
    /\ sse.sources[k] = "open"
    /\ sse' = [sse EXCEPT !.connectionStatus = "connected", !.error = Null]
    /\ lastOp' = Op("sseMessage", k, TRUE)
    /\ UNCHANGED appVars

\* onerror of the k-th EventSource: the error was fatal or the browser
\* goes on reconnecting
SSEError(k, fatal) ==
    /\ k \in 1..Len(sse.sources)
    /\ sse.sources[k] # "closed"
    /\ sse.autoReconnect => sse.timers < MaxTimers
    /\ sse' = [sse EXCEPT
                  !.sources[k] = IF fatal THEN "closed" ELSE "connecting",
                  !.connectionStatus = "disconnected",
                  !.error = <<"Connection error">>,
                  !.timers = IF sse.autoReconnect THEN @ + 1 ELSE @]
    /\ lastOp' = Op("sseError", k, fatal)
    /\ UNCHANGED appVars

\* a reconnect timer fires
SSETimer ==
    /\ sse.timers > 0
    /\ LET s1 == [sse EXCEPT !.timers = @ - 1]
           s2 == IF s1.connectionStatus = "disconnected" THEN connect(s1)
                 ELSE s1
       IN /\ Len(s2.sources) <= MaxSources
          /\ sse' = s2
          /\ lastOp' = Op("sseTimer", 0, s2 # s1)
    /\ UNCHANGED appVars

\* the component unmounts or calls disconnect
SSEDisconnect ==
    /\ sse.sources # <<>>
    /\ sse' = disconnect(sse)
    /\ lastOp' = Op("sseDisconnect", 0, TRUE)
    /\ UNCHANGED appVars

(***************************************************************************)
(* Specifications.                                                         *)
(***************************************************************************)
\* no request of the sessions store or of a history load is pending
Settled == fetches = <<>> /\ loads = <<>> /\ deletes = <<>> /\ clears = 0

\* the listing and the history the backend answers with at the start of the
\* streaming specification
StreamListing == <<Remote(101)>>
StreamHistories == HistoryOutcomes

\* The streaming specification.  The application starts (the backend lists
\* one session and answers the history request in any of its ways); then the
\* user sends one message, and the request fails or is answered by any of
\* the stream bodies, cut into chunks anywhere.
NextStream ==
    \/ \E i \in 1..Len(fetches) : FetchSessionsOk(i, StreamListing)
    \/ \E i \in 1..Len(loads), h \in StreamHistories : LoadResolve(i, h, "none")
    \/ Settled /\ Send(1)
    \/ \E b \in StreamBodies : FetchOk(1, b)
    \/ \E f \in FetchFailures : FetchFail(1, f)
    \/ \E n \in 1..Len(calls[1].wire) : ReadChunk(1, n)
    \/ ReadDone(1)
    \/ ReadFail(1)

SpecStream == Init /\ [][NextStream]_vars

\* the listing and the histories the backend answers with in the
\* specification of the chat
ChatListing == <<Remote(101), Remote(102)>>
ChatHistories == {"empty", "messages"}

\* a read that delivers one line: up to the next newline, or what is left
LineChunk(wire) ==
    LET i == IndexOfFrom(wire, NL, 1) IN IF i = 0 THEN Len(wire) ELSE i

\* the application has started: the first fetches and the history load of
\* App.vue are over
Started ==
    /\ \A i \in 1..Len(fetches) : fetches[i] = "refresh"
    /\ \A i \in 1..Len(loads) : loads[i].from # "mount"

\* The specification of the chat.  The application starts and the backend
\* lists two sessions; then the user sends messages whenever the input
\* allows it and selects sessions in the sidebar; each response arrives line
\* by line.
Next ==
    \/ \E i \in 1..Len(fetches) : FetchSessionsOk(i, ChatListing)
    \/ \E i \in 1..Len(loads), h \in ChatHistories : LoadResolve(i, h, "none")
    \/ Started /\ \E me \in CallIds : Send(me)
    \/ \E me \in CallIds, b \in ShortBodies : FetchOk(me, b)
    \/ \E me \in CallIds, f \in FetchFailures : FetchFail(me, f)
    \/ \E me \in CallIds : ReadChunk(me, LineChunk(calls[me].wire))
    \/ \E me \in CallIds : ReadDone(me)
    \/ \E me \in CallIds : ReadFail(me)
    \/ Started /\ \E id \in Sids : SelectSession(id)

Spec == Init /\ [][Next]_vars

\* the histories the backend answers with in the specification of the
\* sessions
SessionsHistories == {"empty", "messages"}

\* The specification of the sessions.  The application starts; then the user
\* works the sidebar and the header: new chats, selecting, deleting,
\* refreshing and clearing, while the backend answers every request in any
\* order, with any listing or a failure.
NextSessions ==
    \/ \E i \in 1..Len(fetches), l \in RemoteListings : FetchSessionsOk(i, l)
    \/ \E i \in 1..Len(fetches) : FetchSessionsFail(i)
    \/ \E i \in 1..Len(loads), h \in SessionsHistories,
             x \in ContextOutcomes : LoadResolve(i, h, x)
    \/ Started /\ Refresh
    \/ Started /\ CreateNewChat
    \/ Started /\ StartNewChat
    \/ Started /\ \E id \in Sids : SelectSession(id)
    \/ Started /\ \E id \in Sids : DeleteRejected(id)
    \/ Started /\ \E id \in Sids : DeleteBegin(id)
    \/ \E i \in 1..Len(deletes), o \in DeleteOutcomes : DeleteResolve(i, o)
    \/ Started /\ ClearAllEmpty
    \/ Started /\ ClearAllBegin
    \/ ClearAllResolve

SpecSessions == Init /\ [][NextSessions]_vars

\* The specification of the titles.  The application starts with any
\* listing; then updateSessionFromMessage is called for any session id with
\* any of the messages, in any order.
NextTitles ==
    \/ \E i \in 1..Len(fetches), l \in RemoteListings : FetchSessionsOk(i, l)
    \/ \E i \in 1..Len(loads), h \in SessionsHistories :
          LoadResolve(i, h, "none")
    \/ Started /\ \E id \in Sids, m \in TitleMessages :
          UpdateSessionFromMessage(id, m)

SpecTitles == Init /\ [][NextTitles]_vars

\* The specification of the notification channel.  A component calls
\* connect once; then the EventSources open, receive, fail and reconnect, the
\* timers fire, and the component may disconnect.
NextSSE ==
    \/ \E auto \in BOOLEAN : SSEConnect(auto)
    \/ \E k \in 1..MaxSources : SSEOpen(k)
    \/ \E k \in 1..MaxSources : SSEMessage(k)
    \/ \E k \in 1..MaxSources, fatal \in BOOLEAN : SSEError(k, fatal)
    \/ SSETimer
    \/ SSEDisconnect

SpecSSE == Init /\ [][NextSSE]_vars

\* The specification of the history loads.  The application starts with two
\* sessions listed; then the user selects a session and deletes sessions,
\* and the backend answers the history and context requests of every load in
\* any of their ways, in any order.
NextLoads ==
    \/ \E i \in 1..Len(fetches) : FetchSessionsOk(i, ChatListing)
    \/ \E i \in 1..Len(loads), h \in HistoryOutcomes,
             x \in ContextOutcomes : LoadResolve(i, h, x)
    \/ Started /\ \E id \in Sids : SelectSession(id)
    \/ Started /\ \E id \in Sids : DeleteBegin(id)
    \/ \E i \in 1..Len(deletes), o \in DeleteOutcomes : DeleteResolve(i, o)

SpecLoads == Init /\ [][NextLoads]_vars

(***************************************************************************)
(* Properties of the streaming client.                                     *)
(***************************************************************************)
\* the part of its response body that the reads of a call have delivered
Delivered(c) == SubSeq(c.body, 1, Len(c.body) - Len(c.wire))

\* the locals of call me after the read loop has been given text by one read
Uncut(me, text) ==
    ProcessChunk([World EXCEPT
                     !.calls[me] = [NoCall EXCEPT !.pc = "reading",
                                                  !.sid = calls[me].sid]],
                 me, text).calls[me]

\* C2: however the delivered part of the body was cut into chunks, the
\* events applied so far and the unfinished line kept in the buffer are
\* those of the same text delivered uncut by a single read.
ChunkingEquivalence ==
    \A c \in CallIds :
        LET u == Uncut(c, Delivered(calls[c])) IN
        /\ calls[c].applied = u.applied
        /\ calls[c].buffer = u.buffer

\* a stream has been read to its complete event although a read ended
\* inside a line
CutInsideLineThenComplete ==
    \E c \in CallIds :
        /\ calls[c].exit = "complete"
        /\ calls[c].carried
        /\ Len(calls[c].applied) >= 4

\* the lines of a text that a newline ends
CompleteLines(text) ==
    LET pieces == Split(text) IN SubSeq(pieces, 1, Len(pieces) - 1)

EventKinds ==
    {"start", "action", "memory", "response_start", "token", "complete",
     "error"}

\* a data line whose payload parses to an event the switch can handle
IsEventLine(line) ==
    /\ StartsWith(line, DataPrefix)
    /\ LET data == ParseJSON(Slice(line, DataPrefixLen)) IN
       /\ data.ok
       /\ data.type \in EventKinds
       /\ data.type = "action" => data.hasArg

\* a data line whose payload is not empty and does not parse
IsMalformedLine(line) ==
    /\ StartsWith(line, DataPrefix)
    /\ Trim(Slice(line, DataPrefixLen)) # <<>>
    /\ ~ParseJSON(Slice(line, DataPrefixLen)).ok

EventOf(line) ==
    LET data == ParseJSON(Slice(line, DataPrefixLen)) IN
    [type |-> data.type, arg |-> data.arg]

RECURSIVE ValidEvents(_)
\* the events of the valid event lines, in order, up to the first complete
\* or error event
ValidEvents(lines) ==
    IF lines = <<>> THEN <<>>
    ELSE IF ~IsEventLine(Head(lines)) THEN ValidEvents(Tail(lines))
    ELSE IF EventOf(Head(lines)).type \in {"complete", "error"}
    THEN <<EventOf(Head(lines))>>
    ELSE <<EventOf(Head(lines))>> \o ValidEvents(Tail(lines))

\* C3: a data line whose payload does not parse is discarded: the events
\* applied are exactly those of the valid event lines delivered, in order,
\* up to the first complete or error; and a call fails only when the fetch
\* or a read fails, never on a line.
MalformedLineDiscarded ==
    \A c \in CallIds :
        /\ calls[c].applied = ValidEvents(CompleteLines(Delivered(calls[c])))
        /\ calls[c].exit = "failed" => lastOp.op \in {"fetchFail", "readFail"}

\* a stream with a malformed line among valid ones has been read to its
\* complete event, and events before and after the malformed line applied
MalformedLineThenComplete ==
    \E c \in CallIds :
        /\ calls[c].exit = "complete"
        /\ \E i \in 2..(Len(CompleteLines(calls[c].body)) - 1) :
              /\ IsMalformedLine(CompleteLines(calls[c].body)[i])
              /\ IsEventLine(CompleteLines(calls[c].body)[i - 1])
              /\ IsEventLine(CompleteLines(calls[c].body)[i + 1])
        /\ Len(calls[c].applied) >= 4

\* C4: once a sendMessage call has returned, however it ended, the typing
\* indicator is false.
TypingClearedAfterCall ==
    \A c \in CallIds : calls[c].pc = "done" => ~isTyping

\* the events start, response_start, any number of token, complete
IsExchange(applied) ==
    /\ Len(applied) >= 3
    /\ applied[1].type = "start"
    /\ applied[2].type = "response_start"
    /\ applied[Len(applied)].type = "complete"
    /\ \A i \in 3..(Len(applied) - 1) : applied[i].type = "token"

\* C5: after a stream start, response_start, token*, complete the message
\* list ends with the user message followed by exactly one assistant message,
\* the one made by response_start, and typing is false.
ExchangeAddsOneMessage ==
    \A c \in CallIds :
        calls[c].exit = "complete" /\ IsExchange(calls[c].applied) =>
            LET i == Find(messages, calls[c].sent) IN
            /\ i # 0
            /\ Len(messages) = i + 1
            /\ messages[i + 1].id = calls[c].cur
            /\ messages[i + 1].role = "assistant"
            /\ ~messages[i + 1].isError
            /\ ~isTyping

\* an exchange with two tokens has completed
ExchangeCompleted ==
    \E c \in CallIds :
        /\ calls[c].exit = "complete"
        /\ IsExchange(calls[c].applied)
        /\ Len(calls[c].applied) = 5

(***************************************************************************)
(* Properties of the chat: messages, sessions and streams together.        *)
(***************************************************************************)
RECURSIVE TokenText(_)
\* the payloads of the token events of a log, concatenated in order
TokenText(applied) ==
    IF applied = <<>> THEN <<>>
    ELSE (IF Head(applied).type = "token" THEN Head(applied).arg ELSE <<>>)
             \o TokenText(Tail(applied))

\* the events hold one response_start, followed by token events only and
\* then complete
IsResponse(applied) ==
    \E k \in 1..(Len(applied) - 1) :
        /\ applied[k].type = "response_start"
        /\ applied[Len(applied)].type = "complete"
        /\ \A i \in (k + 1)..(Len(applied) - 1) : applied[i].type = "token"
        /\ \A i \in 1..(k - 1) :
              applied[i].type \notin {"response_start", "token"}

\* the message lists there are: the store's and the cached ones
MessageLists ==
    {messages} \cup {CacheValue(sessionMessages[s], messages) : s \in Sids}

\* C1: once a stream of one response_start, tokens and complete has been
\* handled, the assistant message made by its response_start has, in every
\* message list that holds it, the token payloads concatenated in arrival
\* order as its content.
TokensConcatenated ==
    \A c \in CallIds :
        calls[c].exit = "complete" /\ IsResponse(calls[c].applied) =>
            \A list \in MessageLists :
                \A i \in 1..Len(list) :
                    list[i].id = calls[c].cur =>
                        list[i].content = TokenText(calls[c].applied)

\* an assistant message is in progress in call c
InProgress(c) == calls[c].pc = "reading" /\ calls[c].cur # 0

\* C6: no session has two assistant messages in progress, that is made by a
\* response_start of a stream that has not yet ended.
OneInProgressPerSession ==
    \A c1, c2 \in CallIds :
        InProgress(c1) /\ InProgress(c2) /\ calls[c1].sid = calls[c2].sid
            => c1 = c2

\* the steps of sendMessage
StreamOps == {"send", "fetchOk", "fetchFail", "read", "readDone", "readFail"}

\* C7: a step of sendMessage (the send, a read, the end or a failure) only
\* appends to the message list: every message keeps its index, and the only
\* message that changes is the in-progress message of the call that reads,
\* whose content alone is replaced.
AppendOnly ==
    [][lastOp'.op \in StreamOps =>
          /\ Len(messages') >= Len(messages)
          /\ \A i \in 1..Len(messages) :
                \/ messages'[i] = messages[i]
                \/ /\ lastOp'.op = "read"
                   /\ messages[i].id \in {calls[lastOp'.arg].cur,
                                          calls'[lastOp'.arg].cur}
                   /\ messages'[i] =
                         [messages[i] EXCEPT !.content = messages'[i].content]
      ]_vars

\* tokens have replaced the in-progress message where response_start put it,
\* after the messages that were there and the user message
TokensReplacedInPlace ==
    \E c \in CallIds :
        /\ calls[c].pc = "reading"
        /\ calls[c].content = <<"x", "y">>
        /\ LET i == Find(messages, calls[c].cur) IN
           /\ i >= 3
           /\ i = Len(messages)
           /\ messages[i].content = <<"x", "y">>
           /\ messages[i - 1].id = calls[c].sent

\* the message list of a session: the store's when the chat shows the
\* session, the cached one otherwise
MessagesOf(id) ==
    IF chatSessionId = id THEN messages
    ELSE CacheValue(sessionMessages[id], messages)

\* C10: when the complete event of a message sent in a session of the
\* catalog has just been handled, the messageCount of that session's entry
\* is the length of the session's message list.
CountMatchesAfterComplete ==
    \A c \in CallIds :
        /\ lastOp.op = "read"
        /\ lastOp.arg = c
        /\ lastOp.ret
        /\ calls[c].exit = "complete"
        /\ InCatalog(sessions, calls[c].sid)
        => sessions[Find(sessions, calls[c].sid)].messageCount
               = Len(MessagesOf(calls[c].sid))

(***************************************************************************)
(* Properties of the session catalog.                                      *)
(***************************************************************************)
\* initialize() of the sessions store has returned
InitializeDone == \A i \in 1..Len(fetches) : fetches[i] # "initialize"

\* C8: once the store has been initialized, the catalog holds at least one
\* session in every state.
CatalogNeverEmpty == InitializeDone => Len(sessions) >= 1

\* C9: a deleteSession call made while the catalog holds exactly one session
\* returns false, leaves the catalog and the current session id as they are
\* and issues no DELETE request.
LastSessionDeleteRejected ==
    [][lastOp'.op \in {"delete", "deleteRequest"} /\ Len(sessions) = 1 =>
          /\ lastOp'.op = "delete"
          /\ lastOp'.ret = FALSE
          /\ UNCHANGED <<sessions, currentSessionId, deletes>>
      ]_vars

\* deleteSession has just refused to delete the only session of the catalog
DeleteOfLastSessionRefused ==
    /\ lastOp.op = "delete"
    /\ lastOp.ret = FALSE
    /\ Len(sessions) = 1
    /\ sessions[1].id = lastOp.arg
    /\ deletes = <<>>

(***************************************************************************)
(* Properties of the session titles.                                       *)
(***************************************************************************)
\* C11: over the calls of updateSessionFromMessage the title of a session
\* changes at most once: a call with a message that is not blank on a
\* session whose title is the default sets the title made from the message,
\* every other call leaves the title as it is, and so a title that is not
\* the default is never changed.
TitleSetOnce ==
    [][lastOp'.op = "updateSessionFromMessage" =>
          /\ Len(sessions') = Len(sessions)
          /\ \A i \in 1..Len(sessions) :
                LET id == lastOp'.arg[1]
                    message == lastOp'.arg[2]
                IN sessions'[i].title =
                      IF /\ sessions[i].id = id
                         /\ sessions[i].title = DefaultTitle
                         /\ Trim(message) # <<>>
                      THEN TitleFromMessage(message)
                      ELSE sessions[i].title
      ]_vars

\* a session created with the default title has got its title from an
\* earlier message, and the call just made with another message has kept it
TitleKeptByLaterCall ==
    /\ lastOp.op = "updateSessionFromMessage"
    /\ lastOp.arg[1] \in UuidSids
    /\ InCatalog(sessions, lastOp.arg[1])
    /\ Trim(lastOp.arg[2]) # <<>>
    /\ LET s == sessions[Find(sessions, lastOp.arg[1])] IN
       /\ s.title = TripTo \o <<"G", "o", "a">>
       /\ s.title # TitleFromMessage(lastOp.arg[2])
       /\ s.lastMessage = lastOp.arg[2]

(***************************************************************************)
(* Properties of the memory events.                                        *)
(***************************************************************************)
\* the updates of the memory events a call has applied, in order
MemoryEvents(c) ==
    SelectSeq(calls[c].applied, LAMBDA e : e.type = "memory")

\* the value of key k after the updates evs on a store that held nothing:
\* that of the last update that has the key
LastValue(evs, k) ==
    LET I == {i \in 1..Len(evs) : UpdatesOf(evs[i].arg)[k] # Undefined}
    IN IF I = {} THEN Undefined
       ELSE UpdatesOf(evs[CHOOSE i \in I : \A j \in I : j <= i].arg)[k]

\* C12: memory events merge.  After the memory events of a stream, each
\* preference key and each key of the chat store's memory holds the value of
\* the last update that had the key, and a key no update had holds what it
\* held before (nothing): an update never removes the value of a key it
\* does not have.
MemoryMerged ==
    \A c \in CallIds :
        calls[c].pc # "idle" =>
            /\ \A k \in PrefKeys :
                  preferences[k] = LastValue(MemoryEvents(c), k)
            /\ \A k \in MemKeys :
                  memoryUpdates[k] = LastValue(MemoryEvents(c), k)

\* the update {destination} and then the update {budget} have been applied:
\* both preferences are set
DestinationThenBudget ==
    \E c \in CallIds :
        /\ Len(MemoryEvents(c)) = 2
        /\ UpdatesOf(MemoryEvents(c)[1].arg)["budget"] = Undefined
        /\ UpdatesOf(MemoryEvents(c)[2].arg)["destination"] = Undefined
        /\ preferences["destination"] = <<"G", "o", "a">>
        /\ preferences["budget"] = <<"2", "5", "0", "0", "0">>
        /\ memoryUpdates["destination"] = <<"G", "o", "a">>

\* the callers of fetchSessions: initialize, the sidebar when it mounts, the
\* Refresh button
FetchOps == {"initialize", "fetch", "refresh"}

DeleteIsBestEffort ==
    [][lastOp'.op = "deleted" =>
          LET id == lastOp'.arg.id IN
          /\ lastOp'.ret
          /\ ~InCatalog(sessions', id)
          /\ \A i \in 1..Len(sessions) :
                sessions[i].id # id => InCatalog(sessions', sessions[i].id)
          /\ currentSessionId = id => InCatalog(sessions', currentSessionId')
      ]_vars

\* the DELETE request of the current session was rejected: the session is
\* gone all the same and another session of the catalog is current
CurrentDeletedDespiteFailure ==
    /\ lastOp.op = "deleted"
    /\ lastOp.arg.outcome = "throw"
    /\ lastOp.arg.wasCurrent
    /\ lastOp.ret
    /\ ~InCatalog(sessions, lastOp.arg.id)
    /\ InCatalog(sessions, currentSessionId)

\* the entries of the catalog that have the current session id
CurrentEntries == {i \in 1..Len(sessions) : sessions[i].id = currentSessionId}

\* C15: once the store has been initialized, the current session id is the
\* id of exactly one session of the catalog in every state.
ExactlyOneCurrent == InitializeDone => Cardinality(CurrentEntries) = 1

\* C16: a session of the catalog is in the catalog after every step, except
\* the step of deleteSession that removes it and the step of
\* clearAllSessions.
SessionsKeptUntilDeleted ==
    [][\A i \in 1..Len(sessions) :
          \/ InCatalog(sessions', sessions[i].id)
          \/ lastOp'.op = "deleted" /\ lastOp'.arg.id = sessions[i].id
          \/ lastOp'.op = "cleared"
      ]_vars

(***************************************************************************)
(* Properties of the notification channel.                                 *)
(***************************************************************************)
\* the EventSources that are not closed
LiveSources == {k \in 1..Len(sse.sources) : sse.sources[k] # "closed"}

\* C17: at most one EventSource of the channel is live (not closed) in
\* every state: a reconnect, made by a timer that finds the status
\* disconnected, never adds a connection to one that is still there.
OneLiveSource == Cardinality(LiveSources) <= 1

(***************************************************************************)
(* Properties of the failures of sendMessage.                              *)
(***************************************************************************)
\* C18: when sendMessage fails in transport (its fetch rejects, answers a
\* status that is not a success or has no body, or a read rejects), the step
\* appends exactly one message to the chat, an assistant message with
\* isError set, leaves the other messages as they are, sets the store's
\* error and clears typing.
TransportFailureSurfaced ==
    [][lastOp'.op \in {"fetchFail", "readFail"} =>
          /\ Len(messages') = Len(messages) + 1
          /\ SubSeq(messages', 1, Len(messages)) = messages
          /\ messages'[Len(messages')].role = "assistant"
          /\ messages'[Len(messages')].isError
          /\ chatError' # Null
          /\ ~isTyping'
      ]_vars

\* a read has just failed in the middle of a response: the chat ends with
\* the unfinished assistant message and the one error message
ReadFailedMidResponse ==
    \E c \in CallIds :
        /\ lastOp.op = "readFail"
        /\ lastOp.arg = c
        /\ calls[c].content = <<"x">>
        /\ Len(messages) >= 3
        /\ messages[Len(messages) - 1].id = calls[c].cur
        /\ messages[Len(messages)].isError
        /\ Cardinality({i \in 1..Len(messages) : messages[i].isError}) = 1
        /\ chatError = SendFailedError
        /\ ~isTyping

(***************************************************************************)
(* Properties of the per-session cache.                                    *)
(***************************************************************************)
\* the steps that run chatStore.switchSession: a click on a session, and a
\* delete (the sidebar then switches to the current session)
SwitchOps == {"select", "deleted"}

\* C19: a step that runs switchSession(B) while the chat shows session A
\* with at least one message leaves, in the cache under A's id, the messages,
\* the actions and the memory the chat held before the step; the chat's
\* session id is then B, and the chat holds B's cached messages or is empty
\* with the load of B's history pending.
SwitchSavesBeforeClear ==
    [][lastOp'.op \in SwitchOps /\ Len(messages) > 0 =>
          LET A == chatSessionId
              B == currentSessionId'
          IN /\ sessionMessages'[A].k # "absent"
             /\ CacheValue(sessionMessages'[A], messages') = messages
             /\ sessionActions'[A].k # "absent"
             /\ CacheValue(sessionActions'[A], agentActions') = agentActions
             /\ sessionMemory'[A].k # "absent"
             /\ CacheValue(sessionMemory'[A], memoryUpdates') = memoryUpdates
             /\ chatSessionId' = B
             /\ \/ /\ \E f \in {"select", "delete"} :
                         loads' = Append(loads, [sid |-> B, from |-> f])
                   /\ messages' = <<>>
                   /\ agentActions' = <<>>
                   /\ memoryUpdates' = EmptyMemory
                \/ /\ loads' = loads
                   /\ messages' = IF B = A THEN messages
                                  ELSE CacheValue(sessionMessages[B], messages)
      ]_vars

\* the user has just selected another session while the chat showed only
\* the welcome message of a session, which no load had cached: the cache now
\* holds that message and the session's memory under the session's id
WelcomeSavedOnSwitch ==
    /\ lastOp.op = "select"
    /\ chatSessionId = lastOp.arg
    /\ messages = <<>>
    /\ \E A \in Sids \ {chatSessionId} :
          /\ sessionMessages[A].k = "own"
          /\ Len(sessionMessages[A].v) = 1
          /\ sessionMessages[A].v[1].content = WelcomeText
          /\ sessionActions[A].k = "own"
          /\ sessionMemory[A].k = "own"
          /\ sessionMemory[A].v["destination"] = <<"G", "o", "a">>

\* what the cache holds for a session: whether it has an entry, and the
\* messages, the actions and the memory of the entry
Cached(id) ==
    <<sessionMessages[id].k # "absent",
      CacheValue(sessionMessages[id], messages),
      CacheValue(sessionActions[id], agentActions),
      CacheValue(sessionMemory[id], memoryUpdates)>>

\* C20: a step of a stream that handles no complete event (a read of other
\* events, the end of the data, a failure of the fetch or of a read) leaves
\* what the cache holds for every session as it was.
CacheWrittenOnlyOnComplete ==
    [][/\ lastOp'.op \in {"fetchFail", "read", "readDone", "readFail"}
       /\ calls'[lastOp'.arg].exit # "complete"
       => \A id \in Sids : Cached(id)' = Cached(id)
      ]_vars

LeftBy(w, c) ==
    /\ messages' = w.msgs
    /\ agentActions' = w.acts
    /\ memoryUpdates' = w.mem
    /\ isTyping' = w.typing
    /\ chatError' = w.err
    /\ preferences' = w.prefs
    /\ sessions' = w.sess
    /\ currentSessionId' = w.cur
    /\ sessionMessages' = w.cMsgs
    /\ sessionActions' = w.cActs
    /\ sessionMemory' = w.cMem
    /\ calls'[c].applied = w.calls[c].applied

RECURSIVE TerminalEnd(_, _)
\* the length of text up to the end of its first line that is a complete or
\* an error event, 0 when it has none
TerminalEnd(text, from) ==
    LET i == IndexOfFrom(text, NL, from) IN
    IF i = 0 THEN 0
    ELSE IF /\ IsEventLine(SubSeq(text, from, i - 1))
            /\ EventOf(SubSeq(text, from, i - 1)).type
                  \in {"complete", "error"}
    THEN i
    ELSE TerminalEnd(text, i + 1)

\* C22: the read that handles the first complete or error event of a stream
\* ends the call: the stores are left as by the chunk cut right after the
\* line of that event, whatever followed it in the chunk, the event is the
\* last one applied, and the call takes no further step, so nothing that
\* follows in a later chunk is read.
StreamEndsAtTerminal ==
    [][/\ lastOp'.op = "read" /\ lastOp'.ret
          => LET c == lastOp'.arg
                 n == Len(calls[c].wire) - Len(calls'[c].wire)
                 text == calls[c].buffer \o SubSeq(calls[c].wire, 1, n)
                 k == TerminalEnd(text, 1) - Len(calls[c].buffer)
                 applied == calls'[c].applied
             IN /\ k \in 1..n
                /\ LeftBy(ProcessChunk(World, c, SubSeq(calls[c].wire, 1, k)),
                          c)
                /\ calls'[c].pc = "done"
                /\ applied[Len(applied)].type \in {"complete", "error"}
                /\ \A i \in 1..(Len(applied) - 1) :
                      applied[i].type \notin {"complete", "error"}
       /\ \A c \in CallIds :
             calls[c].exit \in {"complete", "error"} => calls'[c] = calls[c]
      ]_vars

\* one read has delivered a complete event and the token event after it:
\* the call has ended with complete and the token has not been applied
TokenAfterCompleteDropped ==
    \E c \in CallIds :
        /\ lastOp.op = "read"
        /\ lastOp.arg = c
        /\ calls[c].exit = "complete"
        /\ calls[c].wire = <<>>
        /\ LET lines == CompleteLines(calls[c].body) IN
           /\ Len(lines) >= 2
           /\ IsEventLine(lines[Len(lines)])
           /\ EventOf(lines[Len(lines)]).type = "token"
           /\ EventOf(lines[Len(lines) - 1]).type = "complete"
        /\ calls[c].content = <<"x">>
        /\ messages[Len(messages)].content = <<"x">>

\* C23: when the complete event of a message sent in session S has just
\* been handled, the cache holds under S's id the message list, the action
\* list and the memory of the chat store as they are.
CompleteSavesSession ==
    \A c \in CallIds :
        /\ lastOp.op = "read"
        /\ lastOp.arg = c
        /\ lastOp.ret
        /\ calls[c].exit = "complete"
        => Cached(calls[c].sid)
              = <<TRUE, messages, agentActions, memoryUpdates>>

\* C24: a read that applies an error event and nothing else sets typing to
\* false, makes the store's error the message of the event (undefined when
\* the event has none), and appends one assistant message with isError set,
\* whose content is the message of the event or the standard text, after the
\* messages of the list; the messages that were in the list, the actions
\* and the memory are unchanged.
ErrorEventSurfaced ==
    [][lastOp'.op = "read" =>
          LET c == lastOp'.arg
              applied == calls'[c].applied
              e == applied[Len(applied)]
          IN /\ Len(applied) = Len(calls[c].applied) + 1
             /\ e.type = "error"
             => /\ ~isTyping'
                /\ chatError' = IF e.arg = <<>> THEN Undefined ELSE e.arg
                /\ Len(messages') = Len(messages) + 1
                /\ SubSeq(messages', 1, Len(messages)) = messages
                /\ messages'[Len(messages')].role = "assistant"
                /\ messages'[Len(messages')].isError
                /\ messages'[Len(messages')].content =
                      IF e.arg = <<>> THEN StreamErrorText ELSE e.arg
                /\ agentActions' = agentActions
                /\ memoryUpdates' = memoryUpdates
                /\ calls'[c].exit = "error"
      ]_vars

\* an error event has just been applied after a token of a response: the
\* unfinished assistant message is followed by the one error message, the
\* store's error is the text of the event and typing is false
ErrorAfterToken ==
    \E c \in CallIds :
        /\ lastOp.op = "read"
        /\ lastOp.arg = c
        /\ calls[c].exit = "error"
        /\ calls[c].applied[Len(calls[c].applied)].arg = <<"X">>
        /\ Len(messages) >= 3
        /\ messages[Len(messages) - 1].id = calls[c].cur
        /\ messages[Len(messages) - 1].content = <<"x">>
        /\ messages[Len(messages)].isError
        /\ messages[Len(messages)].content = <<"X">>
        /\ Cardinality({i \in 1..Len(messages) : messages[i].isError}) = 1
        /\ chatError = <<"X">>
        /\ ~isTyping

\* a line the loop passes over: it does not begin with 'data: ', or its
\* payload is empty or blank, or its payload is a JSON value whose type is
\* none of the seven kinds
IsIgnoredLine(line) ==
    \/ ~StartsWith(line, DataPrefix)
    \/ Trim(Slice(line, DataPrefixLen)) = <<>>
    \/ /\ ParseJSON(Slice(line, DataPrefixLen)).ok
       /\ ParseJSON(Slice(line, DataPrefixLen)).type \notin EventKinds

RECURSIVE WithoutIgnored(_)
\* text without its complete lines that are passed over
WithoutIgnored(text) ==
    LET i == IndexOfFrom(text, NL, 1) IN
    IF i = 0 THEN text
    ELSE (IF IsIgnoredLine(SubSeq(text, 1, i - 1)) THEN <<>>
          ELSE SubSeq(text, 1, i))
             \o WithoutIgnored(SubSeq(text, i + 1, Len(text)))

\* C25: a line that does not begin with 'data: ', a data line with an empty
\* or blank payload and an event of an unknown kind change no store, and the
\* lines after them are processed: every read leaves the stores, the log of
\* applied events and the state of the call as the same text would with
\* those lines taken out.
IgnoredLinesSkipped ==
    [][lastOp'.op = "read" =>
          LET c == lastOp'.arg
              n == Len(calls[c].wire) - Len(calls'[c].wire)
              text == calls[c].buffer \o SubSeq(calls[c].wire, 1, n)
              w == ProcessChunk([World EXCEPT !.calls[c].buffer = <<>>], c,
                                WithoutIgnored(text))
          IN WithoutIgnored(text) # text =>
                /\ LeftBy(w, c)
                /\ calls'[c].exit = w.calls[c].exit
                /\ calls'[c].buffer = w.calls[c].buffer
                /\ calls'[c].cur = w.calls[c].cur
                /\ calls'[c].content = w.calls[c].content
      ]_vars

\* a comment line, a blank line, a data line without payload and an event of
\* an unknown kind have been read among the events of a response: the
\* events before, between and after them have been applied, and the call
\* reads on
IgnoredLinesAmongEvents ==
    \E c \in CallIds :
        /\ calls[c].pc = "reading"
        /\ calls[c].buffer = <<>>
        /\ LET lines == CompleteLines(Delivered(calls[c])) IN
           /\ Len(lines) = 7
           /\ ~StartsWith(lines[1], DataPrefix)
           /\ lines[3] = <<>>
           /\ lines[5] = DataPrefix
           /\ ParseJSON(Slice(lines[7], DataPrefixLen)).type = "other"
           /\ \A i \in {1, 3, 5, 7} : IsIgnoredLine(lines[i])
        /\ Len(calls[c].applied) = 3
        /\ calls[c].applied[3].type = "token"
        /\ messages[Len(messages)].content = <<"x">>
        /\ ~isTyping

(***************************************************************************)
(* Properties of the action log.                                           *)
(***************************************************************************)
\* the action events a call has applied, in order
ActionEvents(c) ==
    SelectSeq(calls[c].applied, LAMBDA e : e.type = "action")

\* the AgentAction the action case makes from an event
ActionOf(e) ==
    [action_type |-> NormalizeActionType(e.arg), description |-> e.arg]

\* C26: at every point of a stream, the events applied are the event lines
\* delivered so far in the order of the wire, the action log holds one
\* AgentAction for each action event among them, in that order, and the
\* memory holds the updates of the memory events among them: the stores
\* change one event at a time in the order of the wire.
ActionsInWireOrder ==
    \A c \in CallIds :
        calls[c].pc # "idle" =>
            /\ calls[c].applied
                  = ValidEvents(CompleteLines(Delivered(calls[c])))
            /\ Len(agentActions) = Len(ActionEvents(c))
            /\ \A i \in 1..Len(agentActions) :
                  agentActions[i] = ActionOf(ActionEvents(c)[i])
            /\ \A k \in MemKeys :
                  memoryUpdates[k] = LastValue(MemoryEvents(c), k)

\* two action events with memory events between them have been applied and
\* the third memory event has not: the log holds the two actions in the
\* order of their events, and the memory the destination of the first
\* update and the budget of the second
TwoActionsBetweenMemory ==
    \E c \in CallIds :
        /\ calls[c].pc = "reading"
        /\ Len(agentActions) = 2
        /\ agentActions[1].action_type = <<"s", "_", "f">>
        /\ agentActions[1].description = <<"S", " ", "F">>
        /\ agentActions[2].action_type = <<"b", "o", "o", "k">>
        /\ Len(MemoryEvents(c)) = 2
        /\ memoryUpdates["destination"] = <<"G", "o", "a">>
        /\ memoryUpdates["budget"] = <<"2", "5", "0", "0", "0">>
        /\ calls[c].applied[Len(calls[c].applied)].type = "action"

(***************************************************************************)
(* Properties of createSession.                                            *)
(***************************************************************************)
\* the handlers that call createSession and change the catalog in no other
\* way: the New Chat buttons of the sidebar and of the header
CreateOps == {"createNewChat", "startNewChat"}

\* C27: a step that calls createSession puts one session in front of the
\* catalog, with an id no session had, the default title, messageCount 0
\* and no last message, and leaves the other entries as they were, in their
\* order; the session is then the current one, the id returned is its id,
\* and no request to the backend is started.
CreateAddsOneInFront ==
    [][lastOp'.op \in CreateOps =>
          /\ Len(sessions') = Len(sessions) + 1
          /\ Tail(sessions') = sessions
          /\ ~InCatalog(sessions, sessions'[1].id)
          /\ sessions'[1].id \notin {currentSessionId, chatSessionId}
          /\ sessions'[1] = Session(sessions'[1].id, DefaultTitle, Null, 0)
          /\ currentSessionId' = sessions'[1].id
          /\ lastOp'.arg = sessions'[1].id
          /\ lastOp'.op = "startNewChat" => chatSessionId' = sessions'[1].id
          /\ UNCHANGED <<loads, fetches, deletes, clears>>
      ]_vars

\* the New Chat button of the sidebar has just been clicked with the two
\* sessions of the backend in the catalog: the new session is first and
\* current, the two follow
CreatedBeforeTwoListed ==
    /\ lastOp.op = "createNewChat"
    /\ Len(sessions) = 3
    /\ sessions[1].id = lastOp.arg
    /\ sessions[1].id \in UuidSids
    /\ sessions[1].messageCount = 0
    /\ sessions[1].lastMessage = Null
    /\ sessions[2].id = 101
    /\ sessions[3].id = 102
    /\ currentSessionId = sessions[1].id

\* C28: recentActions is the last min(10, n) entries of the action log of n
\* entries, in their order, and the log itself keeps every entry: one for
\* each action event applied, the first included when an eleventh is added.
RecentIsTail ==
    LET n == Len(agentActions)
        recent == recentActions(agentActions)
        m == IF n < RecentLen THEN n ELSE RecentLen
    IN /\ Len(recent) = m
       /\ \A i \in 1..m : recent[i] = agentActions[n - m + i]
       /\ \A c \in CallIds :
             calls[c].pc # "idle" =>
                /\ n = Len(ActionEvents(c))
                /\ \A i \in 1..n :
                      agentActions[i].description = ActionEvents(c)[i].arg

\* eleven actions have been appended: the log holds the eleven, the first
\* still first, and recentActions the ten from the second on
EleventhActionAdded ==
    /\ Len(agentActions) = RecentLen + 1
    /\ agentActions[1].description = <<"A">>
    /\ Len(recentActions(agentActions)) = RecentLen
    /\ recentActions(agentActions)[1].description = <<"B">>
    /\ recentActions(agentActions)[RecentLen].description = <<"K">>

(***************************************************************************)
(* Properties of updateSessionFromMessage.                                 *)
(***************************************************************************)
\* C29: updateSessionFromMessage(id, m) on a session of the catalog makes m
\* its lastMessage and adds exactly 1 to its messageCount, keeps its id and
\* leaves every other session and every other store as it was; for an id
\* that is not in the catalog it changes nothing.
MessageCountedOnce ==
    [][lastOp'.op = "updateSessionFromMessage" =>
          LET id == lastOp'.arg[1]
              m == lastOp'.arg[2]
          IN /\ Len(sessions') = Len(sessions)
             /\ \A i \in 1..Len(sessions) :
                   IF sessions[i].id = id
                   THEN /\ sessions'[i].id = id
                        /\ sessions'[i].lastMessage = m
                        /\ sessions'[i].messageCount
                              = sessions[i].messageCount + 1
                   ELSE sessions'[i] = sessions[i]
             /\ ~InCatalog(sessions, id) => sessions' = sessions
             /\ UNCHANGED <<chatVars, cacheVars, preferences,
                            currentSessionId, isLoading, sessionsError,
                            asyncVars>>
      ]_vars

\* session 101, listed with two messages, has been updated twice, last with
\* the message of the call just made, and session 102 is as it was listed
UpdatedTwiceOtherUntouched ==
    /\ lastOp.op = "updateSessionFromMessage"
    /\ lastOp.arg[1] = 101
    /\ Len(sessions) = 2
    /\ sessions[1].id = 101
    /\ sessions[1].messageCount = 4
    /\ sessions[1].lastMessage = lastOp.arg[2]
    /\ lastOp.arg[2] = UserText
    /\ sessions[2] = Session(102, <<"T">>, <<"m">>, 0)

(***************************************************************************)
(* Properties of the session the chat shows.                               *)
(***************************************************************************)
\* the handlers of the sidebar and of the header that change the session:
\* new chat (sidebar, header), select, delete, clear all
SessionOps == {"createNewChat", "startNewChat", "select", "deleted", "cleared"}

\* C30: when a handler of the sidebar or of the header that changes the
\* session has just run, the chat store's sessionId is the sessions store's
\* currentSessionId.
ChatShowsCurrentSession ==
    lastOp.op \in SessionOps => chatSessionId = currentSessionId

(***************************************************************************)
(* Properties of streams and session switches.                             *)
(***************************************************************************)
\* C31: a read of the stream of a message sent in session A, made while the
\* chat shows another session B, leaves the messages, the actions and the
\* memory of the chat (they are B's), the preferences and what the cache
\* holds for B as they were, and does not change the messageCount of A's
\* catalog entry to anything but the length of A's message list.
StreamKeptToItsSession ==
    [][lastOp'.op = "read" =>
          \A A, B \in Sids :
             /\ A = calls[lastOp'.arg].sid
             /\ B = chatSessionId
             /\ A # B
             => /\ UNCHANGED <<messages, agentActions, memoryUpdates,
                               preferences>>
                /\ Cached(B)' = Cached(B)
                /\ \A i \in 1..Len(sessions) :
                      sessions[i].id = A =>
                         \/ sessions'[i].messageCount
                               = sessions[i].messageCount
                         \/ sessions'[i].messageCount = Len(MessagesOf(A))'
      ]_vars


\* the sessions whose cache entry is the very array or object the chat store
\* holds (written by the load or by the cache branch of that session)
HeldFor ==
    {id \in Sids : \/ sessionMessages[id].k = "live"
                   \/ sessionMemory[id].k = "live"}

\* no session has been created since the page was mounted: the chat's
\* session id has been changed by switchSession only
OnlySwitched == nextUuid = 2 /\ chatSessionId \in RemoteSids

\* C32: when only switchSession has changed the chat's session, then once
\* every history load has completed, the load that wrote the message list
\* and the memory last is the one of the session named by
\* chatStore.sessionId, and the list and the memory the chat holds are
\* cached for no other session.
LoadsSettleOnShownSession ==
    (OnlySwitched /\ loads = <<>> /\ lastOp.op = "loaded")
       => /\ lastOp.arg = chatSessionId
          /\ HeldFor \subseteq {chatSessionId}


\* C33: when two deleteSession calls overlap (both DELETE requests were
\* pending together and they settle one after the other), the call that
\* resumes second does not remove the only entry of the catalog, and no
\* session is created in its place.
LastSessionGuardUnderOverlap ==
    [][lastOp.op = "deleted" /\ lastOp'.op = "deleted" =>
          /\ InCatalog(sessions, lastOp'.arg.id) => Len(sessions) > 1
          /\ Len(sessions') >= 1
          /\ nextUuid' = nextUuid
      ]_vars


\* the calls of sendMessage that have started and not yet returned
InFlight == {c \in CallIds : calls[c].pc \in {"fetching", "reading"}}

\* C34: a sendMessage started through handleSubmit or sendQuickSuggestion
\* (guarded by canSend or by isTyping) starts when no earlier call is still
\* waiting for its response or reading its stream, so at most one response
\* stream is in flight in every state.
OneStreamInFlight ==
    [][/\ lastOp'.op = "send" => InFlight = {}
       /\ Cardinality(InFlight') <= 1
      ]_vars


(***************************************************************************)
(* Properties of the notification channel after disconnect.                *)
(***************************************************************************)
\* disconnect() has been called and connect() has not run since: the channel
\* holds no EventSource although it has opened one
Disconnected == sse.eventSource = 0 /\ sse.sources # <<>>

\* C35: from a state in which disconnect() was the last call on the channel,
\* no step opens a new EventSource and the status stays 'disconnected', also
\* when a reconnect timer scheduled by an earlier error fires.
DisconnectedUntilConnect ==
    [][Disconnected =>
          /\ Len(sse'.sources) = Len(sse.sources)
          /\ sse'.connectionStatus = "disconnected"
      ]_vars


(***************************************************************************)
(* Properties of the end of a stream.                                      *)
(***************************************************************************)
\* C36: when sendMessage has returned because the stream signalled the end
\* of its data, the events applied are those of every valid event line of
\* the body, the last line included when no newline ends it.
LastLineProcessed ==
    \A c \in CallIds :
        calls[c].exit = "eof" =>
            calls[c].applied = ValidEvents(Split(calls[c].body))


(***************************************************************************)
(* Properties of loadConversationHistory.                                  *)
(***************************************************************************)
\* the list is the single welcome message
IsWelcome(list) ==
    /\ Len(list) = 1
    /\ list[1].role = "assistant"
    /\ list[1].content = WelcomeText
    /\ ~list[1].isError

\* the list is the history of the backend
IsBackendHistory(list) ==
    /\ Len(list) = Len(BackendHistory)
    /\ Len(list) >= 1
    /\ \A i \in 1..Len(list) :
          /\ list[i].role = BackendHistory[i].role
          /\ list[i].content = BackendHistory[i].content

\* C37: a step in which loadConversationHistory finishes (the backend has
\* answered or failed, or switchSession found the session in the cache)
\* leaves isLoadingHistory false and a message list that is not empty: the
\* cached messages, the messages of the backend, or the single welcome
\* message.
LoadEndsWithMessages ==
    [][/\ lastOp'.op = "loaded" =>
             /\ ~isLoadingHistory'
             /\ Len(messages') >= 1
             /\ IsBackendHistory(messages') \/ IsWelcome(messages')
             /\ ~lastOp'.ret => IsWelcome(messages')
       /\ lastOp'.op \in SwitchOps /\ loads' = loads =>
             /\ ~isLoadingHistory'
             /\ Len(messages') > 1
             /\ messages' = Cached(chatSessionId)[2]'
      ]_vars

\* a history request has just been rejected while the load of another
\* session is still pending: the chat shows the welcome message and the error
LoadThrewWhileOtherPending ==
    /\ lastOp.op = "loaded"
    /\ ~lastOp.ret
    /\ loads # <<>>
    /\ IsWelcome(messages)
    /\ chatError = LoadFailedError
    /\ ~isLoadingHistory


(***************************************************************************)
(* Properties of a failed fetchSessions.                                   *)
(***************************************************************************)
\* C38: a fetchSessions call that fails leaves the catalog and the current
\* session id as they were and sets the store's error; and isLoading is
\* false after every fetchSessions call, failed or not.  (initialize adds a
\* session after a failed fetch that found the catalog empty; the catalog
\* of that step is not taken here.)
FailedFetchKeepsCatalog ==
    [][lastOp'.op \in FetchOps =>
          /\ ~isLoading'
          /\ ~lastOp'.ret =>
                /\ sessionsError' # Null
                /\ ~(lastOp'.op = "initialize" /\ sessions = <<>>) =>
                      UNCHANGED <<sessions, currentSessionId>>
      ]_vars

\* a refresh has just failed with two sessions in the catalog, the second
\* of them current: both are still there and the error is set
RefreshFailedCatalogKept ==
    /\ lastOp.op = "refresh"
    /\ ~lastOp.ret
    /\ Len(sessions) = 2
    /\ sessions[2].id = currentSessionId
    /\ sessionsError = FetchFailedError
    /\ ~isLoading


(***************************************************************************)
(* Properties of tokens and response_start.                                *)
(***************************************************************************)
RECURSIVE LastStart(_)
\* the index of the last response_start of a log, 0 when it has none
LastStart(applied) ==
    IF applied = <<>> THEN 0
    ELSE IF applied[Len(applied)].type = "response_start" THEN Len(applied)
    ELSE LastStart(SubSeq(applied, 1, Len(applied) - 1))

\* the events of a log that follow its last response_start
SinceLastStart(applied) ==
    SubSeq(applied, LastStart(applied) + 1, Len(applied))

\* C39: a read that applies one token event before any response_start leaves
\* the message list as it was; a read that applies one response_start
\* appends an assistant message with empty content; and the content of the
\* message of the last response_start is the text of the tokens that
\* followed it, without the text of any token that came before it.
TokenBeforeStartDropped ==
    [][lastOp'.op = "read" =>
          LET c == lastOp'.arg
              applied == calls'[c].applied
              e == applied[Len(applied)]
              one == Len(applied) = Len(calls[c].applied) + 1
          IN /\ one /\ e.type = "token" /\ LastStart(calls[c].applied) = 0
                => messages' = messages
             /\ one /\ e.type = "response_start"
                => /\ Len(messages') = Len(messages) + 1
                   /\ SubSeq(messages', 1, Len(messages)) = messages
                   /\ messages'[Len(messages')].role = "assistant"
                   /\ messages'[Len(messages')].content = <<>>
                   /\ messages'[Len(messages')].id = calls'[c].cur
             /\ LastStart(applied) # 0
                => \E i \in 1..Len(messages') :
                      /\ messages'[i].id = calls'[c].cur
                      /\ messages'[i].content
                            = TokenText(SinceLastStart(applied))
      ]_vars

\* a stream has delivered a token, a first response_start with a token, and
\* a second response_start with a token: the chat holds the two assistant
\* messages, each with the text of its own token only
EarlyTokenLeftOut ==
    \E c \in CallIds :
        LET applied == calls[c].applied IN
        /\ lastOp.op = "read"
        /\ lastOp.arg = c
        /\ Len(applied) = 5
        /\ applied[1] = [type |-> "token", arg |-> <<"y">>]
        /\ applied[2].type = "response_start"
        /\ applied[3] = [type |-> "token", arg |-> <<"x">>]
        /\ applied[4].type = "response_start"
        /\ applied[5] = [type |-> "token", arg |-> <<"y">>]
        /\ Len(messages) >= 3
        /\ messages[Len(messages) - 1].content = <<"x">>
        /\ messages[Len(messages)].content = <<"y">>
        /\ messages[Len(messages)].id = calls[c].cur

====
